---- MODULE Spec2Model ----
(***************************************************************************)
(* Model of the dimension expansion engine of action-config                *)
(* (internal/expander/expander.go) as it is driven by run()                *)
(* (cmd/action-config/main.go).                                            *)
(*                                                                         *)
(* Go strings are sequences of byte codes, so that formatting              *)
(* (fmt.Sprintf("%v", v)), concatenation and the byte-wise order of        *)
(* sort.Strings are computed and not assumed.  A Go value of type `any`    *)
(* is a tagged record; a Go map[string]any is a function whose domain is   *)
(* a set of strings.  MatrixEntry maps are reference objects in Go: they   *)
(* live in `heap` and the entry lists hold their addresses.                *)
(***************************************************************************)
EXTENDS Integers, Sequences, FiniteSets, TLC

\* ------------------------------------------------------------------------
\* Bounds of the model
\* ------------------------------------------------------------------------

\* longest array dimension drawn for the "service" key
MaxArrayLen == 3

\* ------------------------------------------------------------------------
\* String literals of the program
\* ------------------------------------------------------------------------
K_global == <<103, 108, 111, 98, 97, 108>>   \* "global"
K_exclude == <<101, 120, 99, 108, 117, 100, 101>>   \* "exclude"
K_include == <<105, 110, 99, 108, 117, 100, 101>>   \* "include"
K_dimension_key == <<100, 105, 109, 101, 110, 115, 105, 111, 110, 95, 107, 101, 121>>   \* "dimension_key"
K_base_dir == <<98, 97, 115, 101, 95, 100, 105, 114>>   \* "base_dir"
K_sort_by == <<115, 111, 114, 116, 95, 98, 121>>   \* "sort_by"
K_service == <<115, 101, 114, 118, 105, 99, 101>>   \* "service"
K_environment == <<101, 110, 118, 105, 114, 111, 110, 109, 101, 110, 116>>   \* "environment"
K_directory == <<100, 105, 114, 101, 99, 116, 111, 114, 121>>   \* "directory"
T_nil == <<60, 110, 105, 108, 62>>   \* "<nil>"
T_true == <<116, 114, 117, 101>>   \* "true"
T_false == <<102, 97, 108, 115, 101>>   \* "false"
T_map == <<109, 97, 112, 91>>   \* "map["
T_slash == <<47>>   \* "/"

\* Strings that occur only in the inputs drawn by Init
K_region == <<114, 101, 103, 105, 111, 110>>   \* "region"
K_x == <<120>>   \* "x"
K_acct == <<97, 99, 99, 116>>   \* "acct"
K_nokey == <<110, 111, 107, 101, 121>>   \* "nokey"
V_api == <<97, 112, 105>>   \* "api"
V_web == <<119, 101, 98>>   \* "web"
V_dev == <<100, 101, 118>>   \* "dev"
V_prod == <<112, 114, 111, 100>>   \* "prod"
V_eu == <<101, 117>>   \* "eu"
V_shared == <<115, 104, 97, 114, 101, 100>>   \* "shared"
V_deploy == <<100, 101, 112, 108, 111, 121>>   \* "deploy"
V_top == <<116, 111, 112>>   \* "top"
V_g == <<103>>   \* "g"
V_e == <<101>>   \* "e"
V_s == <<115>>   \* "s"
V_1 == <<49>>   \* "1"
V_2 == <<50>>   \* "2"
V_junk == <<106, 117, 110, 107>>   \* "junk"
V_old == <<111, 108, 100>>   \* "old"
V_empty == <<>>   \* ""
V_main == <<109, 97, 105, 110>>   \* "main"

\* outputs of git diff --name-only (input only)
O_none == <<>>   \* ""
O_blank == <<10>>   \* "\n"
O_api == <<100, 101, 112, 108, 111, 121, 47, 97, 112, 105, 47, 97, 10>>   \* "deploy/api/a\n"
O_mixed == <<97, 112, 105, 47, 97, 10, 97, 112, 105, 47, 98, 10, 32, 119, 101, 98, 47, 99, 10, 111, 116, 104, 101, 114, 47, 100, 10>>   \* "api/a\napi/b\n web/c\nother/d\n"
O_near == <<97, 112, 105, 120, 47, 97, 10, 100, 101, 112, 108, 111, 121, 47, 97, 112, 105, 120, 10, 120, 47, 97, 112, 105, 47, 97, 10, 49, 47, 98>>   \* "apix/a\ndeploy/apix\nx/api/a\n1/b"
O_deploy == <<100, 101, 112, 108, 111, 121, 47, 119, 101, 98, 47, 97, 10, 10, 100, 101, 112, 108, 111, 121, 47, 49, 47, 98, 10, 100, 101, 112, 108, 111, 121, 47, 101, 117>>   \* "deploy/web/a\n\ndeploy/1/b\ndeploy/eu"

\* ------------------------------------------------------------------------
\* Values of type `any` (as produced by encoding/json)
\* ------------------------------------------------------------------------
Str(s)  == [t |-> "str", s |-> s]
Num(n)  == [t |-> "num", n |-> n]
Bool(b) == [t |-> "bool", b |-> b]
Null    == [t |-> "null"]
List(l) == [t |-> "list", l |-> l]
Map(m)  == [t |-> "map", m |-> m]

\* the empty map[string]any / MatrixEntry{}
EmptyMap == <<>>

\* m[k] of Go: the zero value nil when the key is absent
Get(m, k) == IF k \in DOMAIN m THEN m[k] ELSE Null

\* m[k] = v on a copy of m
Put(m, k, v) == [x \in (DOMAIN m) \cup {k} |-> IF x = k THEN v ELSE m[x]]

\* for k, v := range src { dst[k] = v }
Overlay(dst, src) ==
    [k \in (DOMAIN dst) \cup (DOMAIN src) |-> IF k \in DOMAIN src THEN src[k] ELSE dst[k]]

\* delete(m, k)
Delete(m, k) == [x \in (DOMAIN m) \ {k} |-> m[x]]

Range(s) == {s[i] : i \in 1..Len(s)}

\* a < b for Go strings: byte-wise lexicographic order
StrLess(a, b) ==
    \E i \in 1..(Len(a) + 1) :
        /\ \A j \in 1..(i - 1) : j <= Len(b) /\ a[j] = b[j]
        /\ \/ i = Len(a) + 1 /\ Len(b) >= i
           \/ i <= Len(a) /\ i <= Len(b) /\ a[i] < b[i]

\* strings.HasPrefix
HasPrefix(s, prefix) ==
    /\ Len(prefix) <= Len(s)
    /\ \A i \in 1..Len(prefix) : s[i] = prefix[i]

RECURSIVE SortStrings(_)
\* sort.Strings on a set of distinct strings
SortStrings(S) ==
    IF S = {} THEN <<>>
    ELSE LET m == CHOOSE x \in S : \A y \in S : x = y \/ StrLess(x, y)
         IN  <<m>> \o SortStrings(S \ {m})

\* sortedKeys: the keys of a map sorted alphabetically
sortedKeys(m) == SortStrings(DOMAIN m)

RECURSIVE Itoa(_)
\* decimal text of a non-negative integral number
Itoa(n) == IF n < 10 THEN <<48 + n>> ELSE Itoa(n \div 10) \o <<48 + (n % 10)>>

RECURSIVE Sprint(_)
RECURSIVE SprintList(_)
RECURSIVE SprintPairs(_, _)
\* fmt.Sprintf("%v", v)
Sprint(v) ==
    CASE v.t = "str"  -> v.s
      [] v.t = "num"  -> Itoa(v.n)
      [] v.t = "bool" -> IF v.b THEN T_true ELSE T_false
      [] v.t = "null" -> T_nil
      [] v.t = "list" -> <<91>> \o SprintList(v.l) \o <<93>>
      [] v.t = "map"  -> T_map \o SprintPairs(v.m, sortedKeys(v.m)) \o <<93>>

SprintList(l) ==
    IF l = <<>> THEN <<>>
    ELSE IF Len(l) = 1 THEN Sprint(l[1])
    ELSE Sprint(l[1]) \o <<32>> \o SprintList(Tail(l))

SprintPairs(m, keys) ==
    IF keys = <<>> THEN <<>>
    ELSE LET one == keys[1] \o <<58>> \o Sprint(m[keys[1]])
         IN  IF Len(keys) = 1 THEN one
             ELSE one \o <<32>> \o SprintPairs(m, Tail(keys))

\* ------------------------------------------------------------------------
\* expander.go: helpers
\* ------------------------------------------------------------------------

\* reservedKeys: top-level keys that are never treated as dimensions
reservedKeys == {K_global, K_exclude, K_include}

\* globalReservedKeys without sort_by
globalReservedKeys_NoSortBy == {K_dimension_key, K_base_dir}

\* globalReservedKeys: keys of "global" that are action settings
globalReservedKeys == {K_dimension_key, K_base_dir, K_sort_by}

\* toSlice: whether v is a []any
toSlice(v) == v.t = "list"

\* v.(map[string]any)
isMap(v) == v.t = "map"

\* isDimension: the value is a map or a slice
isDimension(v) == isMap(v) \/ toSlice(v)

RECURSIVE MapItems(_)
\* the loop of toMatrixEntries: the map items of a list, in order
MapItems(arr) ==
    IF arr = <<>> THEN <<>>
    ELSE (IF isMap(arr[1]) THEN <<arr[1].m>> ELSE <<>>) \o MapItems(Tail(arr))

\* toMatrixEntries failing on a list that holds an item that is not a map
toMatrixEntries_FailOnNonMap(v) ==
    IF toSlice(v) /\ \A i \in 1..Len(v.l) : isMap(v.l[i])
    THEN [err |-> FALSE, entries |-> MapItems(v.l)]
    ELSE [err |-> TRUE, entries |-> <<>>]

\* toMatrixEntries: (entries, err); err is set when v is not a list
toMatrixEntries(v) ==
    IF toSlice(v) THEN [err |-> FALSE, entries |-> MapItems(v.l)]
    ELSE [err |-> TRUE, entries |-> <<>>]

\* a Go slice of strings that may be nil (SortBy)
NilSlice == [nil |-> TRUE, s |-> <<>>]
Slice(s) == [nil |-> FALSE, s |-> s]

RECURSIVE StringItems(_)
\* ParseOptions, sort_by loop: the string items of a list, in order
StringItems(arr) ==
    IF arr = <<>> THEN <<>>
    ELSE (IF arr[1].t = "str" THEN <<arr[1].s>> ELSE <<>>) \o StringItems(Tail(arr))

\* ParseOptions: (optsCfg, dimensions); the include entries are map objects,
\* placed in the heap h after the objects it already holds
ParseOptions(raw_, h) ==
    LET dims0 == [k \in (DOMAIN raw_) \ reservedKeys |-> raw_[k]]
        exc   == IF K_exclude \in DOMAIN raw_ /\ ~toMatrixEntries(raw_[K_exclude]).err
                 THEN toMatrixEntries(raw_[K_exclude]).entries ELSE <<>>
        inc   == IF K_include \in DOMAIN raw_ /\ ~toMatrixEntries(raw_[K_include]).err
                 THEN toMatrixEntries(raw_[K_include]).entries ELSE <<>>
        incRefs == [i \in 1..Len(inc) |-> Len(h) + i]
        hasGlobal == K_global \in DOMAIN raw_ /\ isMap(raw_[K_global])
        globalMap == IF hasGlobal THEN raw_[K_global].m ELSE EmptyMap
        mk == Get(globalMap, K_dimension_key)
        bd == Get(globalMap, K_base_dir)
        sb == Get(globalMap, K_sort_by)
    IN  [ optsCfg |->
            [ DimensionKey |-> IF mk.t = "str" /\ mk.s # V_empty THEN mk.s ELSE K_service,
              BaseDir      |-> IF bd.t = "str" THEN bd.s ELSE V_empty,
              SortBy       |-> IF K_sort_by \in DOMAIN globalMap /\ toSlice(sb)
                               THEN Slice(StringItems(sb.l)) ELSE NilSlice,
              GlobalConfig |-> [k \in (DOMAIN globalMap) \ globalReservedKeys |-> globalMap[k]],
              Exclude      |-> exc,
              Include      |-> incRefs ],
          dimensions |-> dims0,
          heap |-> h \o inc ]

\* ExtractDimensionValues with the keys of a map dimension in descending order
ExtractDimensionValues_Descending(raw_, key) ==
    IF key \notin DOMAIN raw_ THEN NilSlice
    ELSE IF toSlice(raw_[key])
         THEN Slice([i \in 1..Len(raw_[key].l) |-> Sprint(raw_[key].l[i])])
    ELSE IF isMap(raw_[key])
         THEN Slice([i \in 1..Len(sortedKeys(raw_[key].m)) |->
                        sortedKeys(raw_[key].m)[Len(sortedKeys(raw_[key].m)) + 1 - i]])
    ELSE NilSlice

\* ExtractDimensionValues: the stringified values of a dimension, nil if none
ExtractDimensionValues(raw_, key) ==
    IF key \notin DOMAIN raw_ THEN NilSlice
    ELSE IF toSlice(raw_[key])
         THEN Slice([i \in 1..Len(raw_[key].l) |-> Sprint(raw_[key].l[i])])
    ELSE IF isMap(raw_[key]) THEN Slice(sortedKeys(raw_[key].m))
    ELSE NilSlice

\* unicode.IsSpace on the bytes of ASCII text
IsSpace(c) == c \in {9, 10, 11, 12, 13, 32}

RECURSIVE TrimLeft(_)
\* strings.TrimSpace, the leading part
TrimLeft(s) == IF s # <<>> /\ IsSpace(s[1]) THEN TrimLeft(Tail(s)) ELSE s

RECURSIVE TrimRight(_)
\* strings.TrimSpace, the trailing part
TrimRight(s) ==
    IF s # <<>> /\ IsSpace(s[Len(s)]) THEN TrimRight(SubSeq(s, 1, Len(s) - 1)) ELSE s

\* strings.TrimSpace
TrimSpace(s) == TrimRight(TrimLeft(s))

RECURSIVE SplitLines(_, _)
\* strings.Split(s, "\n"): cur is the part of the current line already read
SplitLines(s, cur) ==
    IF s = <<>> THEN <<cur>>
    ELSE IF s[1] = 10 THEN <<cur>> \o SplitLines(Tail(s), <<>>)
    ELSE SplitLines(Tail(s), Append(cur, s[1]))

\* DetectChangedFiles, lines 49-55: the non-empty lines; nil when there is none
DiffFiles(output) ==
    LET lines == SplitLines(TrimSpace(output), <<>>)
        files == SelectSeq(lines, LAMBDA l : l # <<>>)
    IN  IF files = <<>> THEN NilSlice ELSE Slice(files)

\* DetectChangedFiles: (files, err) for the event, base ref and git result
DetectChangedFiles(c) ==
    IF c.Event \in {"pull_request", "pull_request_target"} /\ c.BaseRef = V_empty
    THEN [err |-> TRUE, files |-> NilSlice]
    ELSE IF c.Event \notin {"pull_request", "pull_request_target", "push"}
    THEN [err |-> FALSE, files |-> NilSlice]
    ELSE IF c.GitFails THEN [err |-> TRUE, files |-> NilSlice]
    ELSE [err |-> FALSE, files |-> DiffFiles(c.GitOutput)]

\* FilterChanged, the prefix of a value
ChangedPrefix(baseDir, val) ==
    IF baseDir # V_empty THEN baseDir \o T_slash \o val \o T_slash ELSE val \o T_slash

\* FilterChanged with a prefix that lacks the closing "/"
FilterChanged_NoSlash(changedFiles, baseDir, knownValues) ==
    SelectSeq(knownValues,
              LAMBDA val : \E i \in 1..Len(changedFiles) :
                  HasPrefix(TrimSpace(changedFiles[i]),
                            IF baseDir # V_empty THEN baseDir \o T_slash \o val ELSE val))

\* FilterChanged: the known values, in order, that some changed file is under
FilterChanged(changedFiles, baseDir, knownValues) ==
    SelectSeq(knownValues,
              LAMBDA val : \E i \in 1..Len(changedFiles) :
                  HasPrefix(TrimSpace(changedFiles[i]), ChangedPrefix(baseDir, val)))

\* run(), lines 66-81: the filter values merged with the changed values
MergeFilterValues(filterValues, changedValues) ==
    IF Len(filterValues) > 0
    THEN SelectSeq(changedValues, LAMBDA v : \E i \in 1..Len(filterValues) : filterValues[i] = v)
    ELSE changedValues

\* run(), lines 43-84: change detection; exit is "error" (run returns the
\* error), "empty" (the empty matrix is written and run returns) or "expand"
ChangeDetection(c, raw_, optsCfg_, opts_) ==
    LET knownValues   == ExtractDimensionValues(raw_, optsCfg_.DimensionKey)
        d             == DetectChangedFiles(c)
        changedValues == FilterChanged(d.files.s, optsCfg_.BaseDir, knownValues.s)
    IN  IF ~c.ChangeDetection \/ knownValues.nil THEN [exit |-> "expand", opts |-> opts_]
        ELSE IF d.err THEN [exit |-> "error", opts |-> opts_]
        ELSE IF d.files.nil THEN [exit |-> "expand", opts |-> opts_]
        ELSE IF Len(changedValues) = 0 THEN [exit |-> "empty", opts |-> opts_]
        ELSE [exit |-> "expand",
              opts |-> [opts_ EXCEPT !.FilterValues =
                            MergeFilterValues(opts_.FilterValues, changedValues)]]

\* ResolveTarget, the switch of dimensions with the base directory reset
ResolveSwitch_ResetBaseDir(raw_, optsCfg_, opts_, key) ==
    [ dimensions |-> Delete(raw_, optsCfg_.DimensionKey),
      optsCfg    |-> [optsCfg_ EXCEPT !.DimensionKey = key, !.BaseDir = V_empty],
      opts       |-> [opts_ EXCEPT !.FilterKey = key] ]

\* ResolveTarget, the switch of dimensions without clearing the filter values
ResolveSwitch(raw_, optsCfg_, opts_, key) ==
    [ dimensions |-> Delete(raw_, optsCfg_.DimensionKey),
      optsCfg    |-> [optsCfg_ EXCEPT !.DimensionKey = key],
      opts       |-> [opts_ EXCEPT !.FilterKey = key] ]

\* ResolveTarget keeping the filter values when the auto-detection switches
ResolveTarget_KeepFilterValues(raw_, optsCfg_, opts_, dimensionKeyOverride) ==
    LET configDimKey == optsCfg_.DimensionKey
        target == opts_.FilterValues[1]
        known  == ExtractDimensionValues(raw_, configDimKey).s
    IN  IF /\ dimensionKeyOverride # V_empty
           /\ dimensionKeyOverride # configDimKey
           /\ isDimension(Get(raw_, dimensionKeyOverride))
        THEN ResolveSwitch(raw_, optsCfg_, opts_, dimensionKeyOverride)
        ELSE IF \/ Len(opts_.FilterValues) # 1
                \/ ~isDimension(Get(raw_, target))
                \/ \E i \in 1..Len(known) : known[i] = target
        THEN [dimensions |-> raw_, optsCfg |-> optsCfg_, opts |-> opts_]
        ELSE ResolveSwitch(raw_, optsCfg_, opts_, target)

\* ResolveTarget switching to a dimension name that is also a primary value
ResolveTarget_NameFirst(raw_, optsCfg_, opts_, dimensionKeyOverride) ==
    LET configDimKey == optsCfg_.DimensionKey
        target == opts_.FilterValues[1]
        s_     == ResolveSwitch(raw_, optsCfg_, opts_, target)
    IN  IF /\ dimensionKeyOverride # V_empty
           /\ dimensionKeyOverride # configDimKey
           /\ isDimension(Get(raw_, dimensionKeyOverride))
        THEN ResolveSwitch(raw_, optsCfg_, opts_, dimensionKeyOverride)
        ELSE IF Len(opts_.FilterValues) # 1 \/ ~isDimension(Get(raw_, target))
        THEN [dimensions |-> raw_, optsCfg |-> optsCfg_, opts |-> opts_]
        ELSE [s_ EXCEPT !.opts.FilterValues = <<>>]

\* ResolveTarget going on to the auto-detection after an explicit override
ResolveTarget_FallThrough(raw_, optsCfg_, opts_, dimensionKeyOverride) ==
    LET configDimKey == optsCfg_.DimensionKey
        explicit == /\ dimensionKeyOverride # V_empty
                    /\ dimensionKeyOverride # configDimKey
                    /\ isDimension(Get(raw_, dimensionKeyOverride))
        first  == IF explicit THEN ResolveSwitch(raw_, optsCfg_, opts_, dimensionKeyOverride)
                  ELSE [dimensions |-> raw_, optsCfg |-> optsCfg_, opts |-> opts_]
        target == opts_.FilterValues[1]
        known  == ExtractDimensionValues(first.dimensions, configDimKey).s
    IN  IF Len(opts_.FilterValues) # 1 THEN first
        ELSE IF ~isDimension(Get(first.dimensions, target)) THEN first
        ELSE IF \E i \in 1..Len(known) : known[i] = target THEN first
        ELSE [dimensions |-> Delete(first.dimensions, configDimKey),
              optsCfg    |-> [first.optsCfg EXCEPT !.DimensionKey = target],
              opts       |-> [first.opts EXCEPT !.FilterKey = target, !.FilterValues = <<>>]]

\* ResolveTarget: (dimensions, optsCfg, opts) after the call
ResolveTarget(raw_, optsCfg_, opts_, dimensionKeyOverride) ==
    LET configDimKey == optsCfg_.DimensionKey
        same   == [dimensions |-> raw_, optsCfg |-> optsCfg_, opts |-> opts_]
        target == opts_.FilterValues[1]
        known  == ExtractDimensionValues(raw_, configDimKey).s
    IN  IF /\ dimensionKeyOverride # V_empty
           /\ dimensionKeyOverride # configDimKey
           /\ isDimension(Get(raw_, dimensionKeyOverride))
        THEN ResolveSwitch(raw_, optsCfg_, opts_, dimensionKeyOverride)
        ELSE IF Len(opts_.FilterValues) # 1 THEN same
        ELSE IF ~isDimension(Get(raw_, target)) THEN same
        ELSE IF \E i \in 1..Len(known) : known[i] = target THEN same
        ELSE LET sw == ResolveSwitch(raw_, optsCfg_, opts_, target)
             IN  [sw EXCEPT !.opts.FilterValues = <<>>]

RECURSIVE DimsOf(_, _)
\* the loop of extractDimensions over the sorted keys
DimsOf(raw_, keys) ==
    IF keys = <<>> THEN <<>>
    ELSE LET k == keys[1]
             v == raw_[k]
             d == IF toSlice(v) THEN <<[key |-> k, values |-> v.l]>>
                  ELSE IF isMap(v)
                       THEN <<[key |-> k,
                               values |-> [i \in 1..Len(sortedKeys(v.m)) |->
                                              Str(sortedKeys(v.m)[i])]]>>
                  ELSE <<>>
         IN  d \o DimsOf(raw_, Tail(keys))

\* extractDimensions: arrays and maps of the config, in sorted key order
extractDimensions(raw_) == DimsOf(raw_, sortedKeys(raw_))

\* extractBaseConfig: the scalar (non-array, non-map) top-level values
extractBaseConfig(raw_) ==
    [k \in {x \in DOMAIN raw_ : ~toSlice(raw_[x]) /\ ~isMap(raw_[x])} |-> raw_[k]]

RECURSIVE cartesianProduct(_)
\* cartesianProduct with a dimension without values left out of the product
cartesianProduct_SkipEmpty(dims) ==
    IF dims = <<>> THEN <<EmptyMap>>
    ELSE LET result == cartesianProduct(SubSeq(dims, 1, Len(dims) - 1))
             dim    == dims[Len(dims)]
             n      == Len(dim.values)
         IN  IF n = 0 THEN result
             ELSE [idx \in 1..(Len(result) * n) |->
                     Put(result[((idx - 1) \div n) + 1], dim.key,
                         dim.values[((idx - 1) % n) + 1])]

\* cartesianProduct: one fresh map per combination, the first dimension
\* varying slowest
cartesianProduct(dims) ==
    IF dims = <<>> THEN <<EmptyMap>>
    ELSE LET result == cartesianProduct(SubSeq(dims, 1, Len(dims) - 1))
             dim    == dims[Len(dims)]
             n      == Len(dim.values)
         IN  [idx \in 1..(Len(result) * n) |->
                Put(result[((idx - 1) \div n) + 1], dim.key, dim.values[((idx - 1) % n) + 1])]

RECURSIVE ValConfigs(_, _, _, _)
\* mergeConfig step 4: the per-dimension-value configs, in the order of dimKeys
ValConfigs(entry, combo, dimKeys, raw_) ==
    IF dimKeys = <<>> THEN entry
    ELSE LET dimKey   == dimKeys[1]
             dimValue == Sprint(combo[dimKey])
             dimMap   == Get(raw_, dimKey)
             valConfig == IF isMap(dimMap) THEN Get(dimMap.m, dimValue) ELSE Null
             next     == IF isMap(valConfig) THEN Overlay(entry, valConfig.m) ELSE entry
         IN  ValConfigs(next, combo, Tail(dimKeys), raw_)

\* MergeOne with the per-value configs applied in descending key order
MergeOne_Descending(combo, baseConfig, globalConfig, raw_) ==
    ValConfigs(Overlay(Overlay(baseConfig, globalConfig), combo), combo,
               [i \in 1..Len(sortedKeys(combo)) |->
                    sortedKeys(combo)[Len(sortedKeys(combo)) + 1 - i]],
               raw_)

\* mergeConfig, the body of the loop: the merged entry of one combination
MergeOne(combo, baseConfig, globalConfig, raw_) ==
    ValConfigs(Overlay(Overlay(baseConfig, globalConfig), combo),
               combo, sortedKeys(combo), raw_)

\* mergeConfig with the global values laid over the combination
mergeConfig_GlobalLast(entries_, baseConfig, globalConfig, raw_) ==
    [i \in 1..Len(entries_) |->
        Overlay(MergeOne(entries_[i], baseConfig, globalConfig, raw_), globalConfig)]

\* mergeConfig
mergeConfig(entries_, baseConfig, globalConfig, raw_) ==
    [i \in 1..Len(entries_) |-> MergeOne(entries_[i], baseConfig, globalConfig, raw_)]

\* Expand, lines 223-241: the maps of the product entries, before any rule
ExpandProduct(raw_, optsCfg_) ==
    IF Len(extractDimensions(raw_)) = 0
    THEN <<raw_>>
    ELSE mergeConfig(cartesianProduct(extractDimensions(raw_)),
                     extractBaseConfig(raw_), optsCfg_.GlobalConfig, raw_)

\* matchesPattern comparing the values themselves, not their text
matchesPattern_Native(entry, pattern) ==
    \A k \in DOMAIN pattern : k \in DOMAIN entry /\ entry[k] = pattern[k]

\* matchesPattern: every key of the pattern is in the entry with the same text
matchesPattern(entry, pattern) ==
    \A k \in DOMAIN pattern :
        k \in DOMAIN entry /\ Sprint(entry[k]) = Sprint(pattern[k])

RECURSIVE applyExclude(_, _, _)
\* applyExclude: drop the entries that some pattern matches
applyExclude(entries_, patterns, h) ==
    IF entries_ = <<>> THEN <<>>
    ELSE LET excluded == \E i \in 1..Len(patterns) : matchesPattern(h[entries_[1]], patterns[i])
         IN  (IF excluded THEN <<>> ELSE <<entries_[1]>>)
             \o applyExclude(Tail(entries_), patterns, h)

\* applyInclude appending the first include entry only
applyInclude_First(entries_, includes) == entries_ \o SubSeq(includes, 1, 1)

\* applyInclude: append(entries, includes...)
applyInclude(entries_, includes) == entries_ \o includes

RECURSIVE applyFilter(_, _, _, _)
\* applyFilter keeping the entries that lack the key
applyFilter_KeepMissing(entries_, key, allowed, h) ==
    IF entries_ = <<>> THEN <<>>
    ELSE LET entry == h[entries_[1]]
             keep  == \/ key \notin DOMAIN entry
                      \/ Sprint(entry[key]) \in Range(allowed)
         IN  (IF keep THEN <<entries_[1]>> ELSE <<>>)
             \o applyFilter(Tail(entries_), key, allowed, h)

\* applyFilter looking at the first allowed value only
applyFilter_FirstAllowed(entries_, key, allowed, h) ==
    IF entries_ = <<>> THEN <<>>
    ELSE LET entry == h[entries_[1]]
             keep  == /\ key \in DOMAIN entry
                      /\ Sprint(entry[key]) = allowed[1]
         IN  (IF keep THEN <<entries_[1]>> ELSE <<>>)
             \o applyFilter(Tail(entries_), key, allowed, h)

\* applyFilter: keep the entries whose value for key is in the allowed list
applyFilter(entries_, key, allowed, h) ==
    IF entries_ = <<>> THEN <<>>
    ELSE LET entry == h[entries_[1]]
             keep  == /\ key \in DOMAIN entry
                      /\ Sprint(entry[key]) \in Range(allowed)
         IN  (IF keep THEN <<entries_[1]>> ELSE <<>>)
             \o applyFilter(Tail(entries_), key, allowed, h)

\* DirectoryOf without the base directory
DirectoryOf_NoBaseDir(entry, optsCfg_) ==
    IF optsCfg_.DimensionKey \notin DOMAIN entry THEN entry
    ELSE Put(entry, K_directory, Str(Sprint(entry[optsCfg_.DimensionKey])))

\* DirectoryOf keeping a directory field the entry already has
DirectoryOf_KeepExisting(entry, optsCfg_) ==
    IF optsCfg_.DimensionKey \notin DOMAIN entry \/ K_directory \in DOMAIN entry THEN entry
    ELSE Put(entry, K_directory,
             Str((IF optsCfg_.BaseDir # V_empty THEN optsCfg_.BaseDir \o T_slash ELSE <<>>)
                 \o Sprint(entry[optsCfg_.DimensionKey])))

\* addDirectoryField, the body of the loop: the map of one entry afterwards
DirectoryOf(entry, optsCfg_) ==
    IF optsCfg_.DimensionKey \notin DOMAIN entry THEN entry
    ELSE LET strVal == Sprint(entry[optsCfg_.DimensionKey])
         IN  IF optsCfg_.BaseDir # V_empty
             THEN Put(entry, K_directory, Str(optsCfg_.BaseDir \o T_slash \o strVal))
             ELSE Put(entry, K_directory, Str(strVal))

\* addDirectoryField doing nothing when no base directory is configured
addDirectoryField_BaseDirOnly(entries_, optsCfg_, h) ==
    [r \in 1..Len(h) |->
        IF r \in Range(entries_) /\ optsCfg_.BaseDir # V_empty
        THEN DirectoryOf(h[r], optsCfg_) ELSE h[r]]

\* addDirectoryField: writes into the maps the entry list points to
addDirectoryField(entries_, optsCfg_, h) ==
    [r \in 1..Len(h) |-> IF r \in Range(entries_) THEN DirectoryOf(h[r], optsCfg_) ELSE h[r]]

\* the less function of sortEntries comparing the first key only
KeysLess_FirstKeyOnly(ei, ej, keys) ==
    /\ keys # <<>>
    /\ StrLess(Sprint(Get(ei, keys[1])), Sprint(Get(ej, keys[1])))

RECURSIVE KeysLess(_, _, _)
\* the less function of sortEntries
KeysLess(ei, ej, keys) ==
    IF keys = <<>> THEN FALSE
    ELSE LET vi == Sprint(Get(ei, keys[1]))
             vj == Sprint(Get(ej, keys[1]))
         IN  IF vi # vj THEN StrLess(vi, vj) ELSE KeysLess(ei, ej, Tail(keys))

RECURSIVE InsertStable(_, _, _, _)
\* place r before the first element that is not less than it
InsertStable_BeforeEqual(sorted, r, keys, h) ==
    IF sorted = <<>> THEN <<r>>
    ELSE IF ~KeysLess(h[sorted[1]], h[r], keys) THEN <<r>> \o sorted
    ELSE <<sorted[1]>> \o InsertStable(Tail(sorted), r, keys, h)

\* place r after every element that is not greater than it
InsertStable(sorted, r, keys, h) ==
    IF sorted = <<>> THEN <<r>>
    ELSE IF KeysLess(h[r], h[sorted[1]], keys) THEN <<r>> \o sorted
    ELSE <<sorted[1]>> \o InsertStable(Tail(sorted), r, keys, h)

RECURSIVE sortEntries(_, _, _)
\* sortEntries: sort.SliceStable by the keys in order
sortEntries(entries_, keys, h) ==
    IF entries_ = <<>> THEN <<>>
    ELSE InsertStable(sortEntries(SubSeq(entries_, 1, Len(entries_) - 1), keys, h),
                      entries_[Len(entries_)], keys, h)

\* Expand, lines 275-278: the sort keys, ["environment"] by default
SortKeys(optsCfg_) == IF optsCfg_.SortBy.nil THEN <<K_environment>> ELSE optsCfg_.SortBy.s

\* Expand, lines 243-246: the options-level exclude
OptionsExclude(entries_, optsCfg_, h) ==
    IF Len(optsCfg_.Exclude) > 0 THEN applyExclude(entries_, optsCfg_.Exclude, h) ELSE entries_

\* Expand, lines 248-251: the options-level include
OptionsInclude(entries_, optsCfg_) ==
    IF Len(optsCfg_.Include) > 0 THEN applyInclude(entries_, optsCfg_.Include) ELSE entries_

\* Expand, lines 253-256: the filter on the filter key
FilterKey(entries_, opts_, h) ==
    IF Len(opts_.FilterValues) > 0 /\ opts_.FilterKey # V_empty
    THEN applyFilter(entries_, opts_.FilterKey, opts_.FilterValues, h) ELSE entries_

\* Expand, lines 257-259: the filter on "environment"
FilterEnvironment(entries_, opts_, h) ==
    IF Len(opts_.EnvironmentFilter) > 0
    THEN applyFilter(entries_, K_environment, opts_.EnvironmentFilter, h) ELSE entries_

\* Expand, lines 261-264: the input-level exclude
InputExclude(entries_, opts_, h) ==
    IF Len(opts_.InputExclude) > 0 THEN applyExclude(entries_, opts_.InputExclude, h) ELSE entries_

\* Expand, lines 266-269: the input-level include
InputInclude(entries_, opts_) ==
    IF Len(opts_.InputInclude) > 0 THEN applyInclude(entries_, opts_.InputInclude) ELSE entries_

\* Expand as a whole: the returned entry list and the heap it leaves
Expand(raw_, optsCfg_, opts_, h) ==
    LET maps == ExpandProduct(raw_, optsCfg_)
        h1 == h \o maps
        e0 == [i \in 1..Len(maps) |-> Len(h) + i]
        e1 == OptionsInclude(OptionsExclude(e0, optsCfg_, h1), optsCfg_)
        e2 == FilterEnvironment(FilterKey(e1, opts_, h1), opts_, h1)
        e3 == InputInclude(InputExclude(e2, opts_, h1), opts_)
        h2 == addDirectoryField(e3, optsCfg_, h1)
    IN  [entries |-> sortEntries(e3, SortKeys(optsCfg_), h2), heap |-> h2]

\* ------------------------------------------------------------------------
\* Inputs drawn by Init
\* ------------------------------------------------------------------------

\* a map with the single key k
One(k, v) == k :> v

\* the items an array dimension is cut from (it repeats "api")
ArraySeed == <<Str(V_api), Str(V_web), Str(V_api), Num(1)>>
ArrayOf(n) == List([i \in 1..n |-> ArraySeed[((i - 1) % Len(ArraySeed)) + 1]])

ServiceMap  == Map(Overlay(One(V_api, Null), One(V_web, Map(One(K_x, Str(V_s))))))
ServiceMap2 == Map(Overlay(One(V_api, Map(Overlay(One(K_x, Str(V_s)), One(K_acct, Str(V_2))))),
                           One(K_region, Null)))
EnvMap      == Map(Overlay(One(V_dev, Map(Overlay(One(K_acct, Str(V_1)), One(K_x, Str(V_e))))),
                           One(V_prod, Null)))
RegionList  == List(<<Num(1), Str(V_eu)>>)
GlobalMap   == Map(Overlay(One(K_dimension_key, Str(K_region)),
                   Overlay(One(K_base_dir, Str(V_deploy)), One(K_x, Str(V_g)))))
GlobalMap2  == Map(Overlay(One(K_x, Str(V_g)),
                   Overlay(One(K_service, Str(V_g)),
                           One(K_sort_by, List(<<Str(K_service), Num(1)>>)))))
GlobalSort  == Map(One(K_sort_by, List(<<Str(K_environment), Str(K_service)>>)))
GlobalDir   == Map(Overlay(One(K_base_dir, Str(V_deploy)), One(K_acct, Num(1))))

\* environment = {dev: {acct: "1"}, prod: {acct: "2"}}, service = {api: null, web: null}
ScenarioConfig ==
    Overlay(One(K_environment,
                Map(Overlay(One(V_dev, Map(One(K_acct, Str(V_1)))),
                            One(V_prod, Map(One(K_acct, Str(V_2))))))),
            One(K_service, Map(Overlay(One(V_api, Null), One(V_web, Null)))))

\* a top-level key with each of the given values, or absent
Frags(k, vals) == {EmptyMap} \cup {One(k, v) : v \in vals}

ServiceFrags == Frags(K_service, {ArrayOf(n) : n \in 0..MaxArrayLen} \cup {ServiceMap, ServiceMap2})
EnvFrags     == Frags(K_environment, {EnvMap, List(<<Str(V_dev)>>), Str(V_dev)})
RegionFrag   == One(K_region, RegionList)
RegionFrags  == Frags(K_region, {RegionList})
XFrags       == Frags(K_x, {Str(V_top)})
GlobalFrags  == Frags(K_global, {Str(V_junk), GlobalMap, GlobalMap2, GlobalSort})

IncludeFrags ==
    Frags(K_include,
          { List(<<Map(One(K_service, Str(V_shared)))>>),
            List(<<Str(V_junk),
                   Map(Overlay(One(K_service, Str(V_api)),
                       Overlay(One(K_environment, Str(V_dev)), One(K_directory, Str(V_old))))),
                   Map(One(K_service, Str(V_shared))),
                   Map(EmptyMap)>>),
            Str(V_junk) })
ExcludeFrags ==
    Frags(K_exclude,
          { List(<<Map(EmptyMap)>>),
            List(<<Map(One(K_service, Str(V_api))), Num(1)>>),
            List(<<Map(Overlay(One(K_acct, Str(V_1)), One(K_service, Str(V_api))))>>),
            List(<<Map(Overlay(One(K_service, Str(V_web)), One(K_nokey, Str(V_1))))>>) })

\* the caller's inputs when none is given
NoInputs ==
    [DimensionKey |-> V_empty, Target |-> <<>>, Environment |-> <<>>,
     Exclude |-> <<>>, Include |-> <<>>, ChangeDetection |-> FALSE,
     Event |-> "workflow_dispatch", BaseRef |-> V_empty, GitFails |-> FALSE,
     GitOutput |-> O_none, ExcludeErr |-> FALSE, IncludeErr |-> FALSE]

\* configs that vary the dimensions, the scalar settings and "global"
ExpandConfigs ==
    { Overlay(s, Overlay(e, Overlay(r, Overlay(x, g)))) :
        s \in ServiceFrags, e \in EnvFrags, r \in RegionFrags, x \in XFrags, g \in GlobalFrags }

\* configs that vary the exclude and include rules over a few products
RuleBases ==
    { One(K_service, ArrayOf(2)),
      Overlay(One(K_service, ServiceMap), One(K_environment, EnvMap)),
      Overlay(One(K_service, ArrayOf(2)),
              Overlay(One(K_environment, EnvMap), One(K_global, GlobalDir))),
      One(K_x, Str(V_top)) }
RuleConfigs ==
    { Overlay(b, Overlay(i, e)) : b \in RuleBases, i \in IncludeFrags, e \in ExcludeFrags }
RuleInputs ==
    { [NoInputs EXCEPT !.Target = t, !.Environment = en, !.Exclude = ex, !.Include = inc] :
        t   \in {<<>>, <<V_api>>, <<V_web, V_shared>>},
        en  \in {<<>>, <<V_dev>>},
        ex  \in {<<>>, <<One(K_service, Str(V_shared))>>, <<EmptyMap>>},
        inc \in {<<>>, <<One(K_service, Str(V_shared)),
                        Overlay(One(K_environment, Str(V_dev)), One(K_acct, Num(1)))>>} }

\* configs and inputs that vary the selection of the primary dimension
TargetConfigs ==
    { Overlay(s, Overlay(e, Overlay(r, g))) :
        s \in Frags(K_service, {ArrayOf(2), ServiceMap2}),
        e \in Frags(K_environment, {EnvMap, Str(V_dev)}),
        r \in RegionFrags,
        g \in Frags(K_global, {GlobalMap}) }
TargetInputs ==
    { [NoInputs EXCEPT !.DimensionKey = d, !.Target = t] :
        d \in {V_empty, K_region, K_environment, K_service},
        t \in {<<>>, <<K_region>>, <<K_environment>>, <<K_service>>, <<V_api>>, <<V_1>>,
               <<K_environment, V_api>>} }

\* configs and inputs that vary the change detection
ChangeBases ==
    { One(K_service, ArrayOf(MaxArrayLen)),
      Overlay(One(K_service, ArrayOf(MaxArrayLen)), One(K_global, GlobalDir)),
      Overlay(One(K_service, ServiceMap), One(K_environment, List(<<Str(V_dev)>>))),
      Overlay(One(K_service, ArrayOf(2)), Overlay(RegionFrag, One(K_global, GlobalMap))),
      One(K_service, Str(V_api)) }
ChangeConfigs ==
    { Overlay(b, i) : b \in ChangeBases,
                      i \in Frags(K_include, {List(<<Map(One(K_service, Str(V_shared)))>>)}) }
GitRuns ==
    { [NoInputs EXCEPT !.ChangeDetection = TRUE, !.Event = e[1], !.BaseRef = e[2],
                       !.GitFails = e[3], !.GitOutput = o] :
        e \in { <<"push", V_empty, FALSE>>, <<"push", V_empty, TRUE>>,
                <<"pull_request", V_empty, FALSE>>, <<"pull_request", V_main, FALSE>>,
                <<"pull_request_target", V_main, FALSE>>,
                <<"workflow_dispatch", V_empty, FALSE>> },
        o \in {O_none, O_blank, O_api, O_mixed, O_near, O_deploy} }
ChangeInputs ==
    { [g EXCEPT !.Target = t, !.Include = inc] :
        g \in GitRuns,
        t \in {<<>>, <<V_api>>, <<V_web>>, <<V_web, V_1>>},
        inc \in {<<>>, <<One(K_environment, Str(V_dev))>>} }

\* configs in which a per-value config defines a dimension key
ServiceMap3 ==
    Map(Overlay(One(V_api, Map(Overlay(One(K_environment, Str(V_prod)), One(K_x, Str(V_s))))),
                One(V_web, Null)))
OverrideConfigs ==
    { Overlay(One(K_service, ServiceMap3), Overlay(e, g)) :
        e \in Frags(K_environment, {EnvMap, List(<<Str(V_dev), Str(V_prod)>>), Str(V_dev)}),
        g \in Frags(K_global, {GlobalMap2, GlobalDir}) }

\* configs whose reserved values are malformed
MalformedConfigs ==
    { Overlay(Overlay(One(K_service, ArrayOf(2)), One(K_environment, EnvMap)),
              Overlay(g, Overlay(i, e))) :
        g \in Frags(K_global, {Str(V_junk), List(<<Map(GlobalMap)>>), Null}),
        i \in Frags(K_include, {Map(One(K_service, Str(V_shared))), Num(1)}),
        e \in Frags(K_exclude,
                    { Map(One(K_service, Str(V_api))), Str(V_junk),
                      List(<<Num(1), Map(One(K_service, Str(V_web))), Null,
                             Map(Overlay(One(K_service, Str(V_api)),
                                         One(K_environment, Str(V_dev)))),
                             List(<<Map(One(K_service, Str(V_api)))>>)>>) }) }

\* a readable JSON file that holds the object r
JSONFile(r) == [exists |-> TRUE, readable |-> TRUE, ext |-> ".json", data |-> Map(r)]

\* the files that can be at the config path: absent, unreadable, of an
\* unsupported type, not parseable, not an object, or a config
ConfigFiles ==
    { [JSONFile(EmptyMap) EXCEPT !.exists = FALSE],
      [JSONFile(EmptyMap) EXCEPT !.readable = FALSE],
      [JSONFile(One(K_service, ArrayOf(2))) EXCEPT !.ext = ".toml"],
      [JSONFile(EmptyMap) EXCEPT !.data = [t |-> "garbage"]],
      [JSONFile(EmptyMap) EXCEPT !.data = ArrayOf(2)],
      [JSONFile(EmptyMap) EXCEPT !.data = Str(V_junk)],
      [JSONFile(EmptyMap) EXCEPT !.data = Null],
      [JSONFile(One(K_service, ArrayOf(2))) EXCEPT !.ext = ".yml"],
      JSONFile(Overlay(One(K_service, ArrayOf(2)), One(K_environment, EnvMap))) }

\* inputs whose exclude or include is or is not valid JSON, with and without
\* change detection
ErrorInputs ==
    { [NoInputs EXCEPT !.ExcludeErr = x, !.IncludeErr = i, !.ChangeDetection = cd,
                       !.Event = "push", !.GitFails = gf, !.GitOutput = O_api] :
        x \in BOOLEAN, i \in BOOLEAN, cd \in BOOLEAN, gf \in BOOLEAN }

\* ------------------------------------------------------------------------
\* The run: cmd/action-config/main.go
\* ------------------------------------------------------------------------
VARIABLES
    configFile,  \* the file at cfg.ConfigPath
    cfg,         \* inputs.Config, with the list and JSON inputs parsed
    raw,         \* the RawConfig returned by ParseConfigFile
    dimensions,  \* the dimensions-only config (ParseOptions, ResolveTarget)
    optsCfg,     \* expander.OptionsConfig
    opts,        \* expander.Options
    combos,      \* Expand: the combinations of cartesianProduct
    entries,     \* Expand: the entry list, addresses into heap
    heap,        \* the MatrixEntry map objects
    entriesNil,  \* Expand: entries is the nil slice
    outputs,     \* the outputs written by SetOutput, in order
    pc           \* the next step of run()

vars == <<configFile, cfg, raw, dimensions, optsCfg, opts, combos, entries, heap, entriesNil, outputs, pc>>

\* the zero value of OptionsConfig
ZeroOptionsConfig ==
    [DimensionKey |-> V_empty, BaseDir |-> V_empty, SortBy |-> NilSlice,
     GlobalConfig |-> EmptyMap, Exclude |-> <<>>, Include |-> <<>>]

\* BuildExpanderOptions: the include entries are the first objects of the heap
BuildExpanderOptions(c) ==
    [FilterKey |-> V_empty, FilterValues |-> c.Target, EnvironmentFilter |-> c.Environment,
     InputExclude |-> c.Exclude, InputInclude |-> [i \in 1..Len(c.Include) |-> i]]

\* run(), main.go:24-86: the result of Expand for a config file and inputs
Run(r, c) ==
    LET p  == ParseOptions(r, c.Include)
        o1 == [BuildExpanderOptions(c) EXCEPT !.FilterKey = p.optsCfg.DimensionKey]
        t  == ResolveTarget(p.dimensions, p.optsCfg, o1, c.DimensionKey)
        d  == ChangeDetection(c, t.dimensions, t.optsCfg, t.opts)
    IN  IF d.exit = "expand" THEN Expand(t.dimensions, t.optsCfg, d.opts, p.heap)
        ELSE [entries |-> <<>>, heap |-> p.heap]

\* the zero value of Options
ZeroOptions ==
    [FilterKey |-> V_empty, FilterValues |-> <<>>, EnvironmentFilter |-> <<>>,
     InputExclude |-> <<>>, InputInclude |-> <<>>]

\* BuildExpanderOptions, the error: the exclude or include input is not JSON
\* for a list of objects
BuildExpanderOptionsErr(c) ==
    IF c.ExcludeErr THEN "invalid exclude JSON"
    ELSE IF c.IncludeErr THEN "invalid include JSON"
    ELSE ""

\* ParseConfigFile: (raw, err) for the file at the config path; data is the
\* value the text of the file denotes, "garbage" when it denotes none
ParseConfigFile(f) ==
    IF ~f.exists THEN [raw |-> EmptyMap, err |-> "configuration file not found"]
    ELSE IF ~f.readable THEN [raw |-> EmptyMap, err |-> "failed to read configuration file"]
    ELSE IF f.ext \notin {".json", ".yaml", ".yml"}
         THEN [raw |-> EmptyMap, err |-> "unsupported file type"]
    ELSE IF f.data.t \notin {"map", "null"}
         THEN [raw |-> EmptyMap, err |-> "invalid JSON or YAML"]
    ELSE IF f.data.t = "null"
         THEN [raw |-> EmptyMap, err |-> "configuration must be an object"]
    ELSE [raw |-> f.data.m, err |-> ""]

\* the state at the entry of run(): the file f at the config path, the
\* inputs c
StartFile(f, c) ==
    /\ configFile = f
    /\ cfg = c
    /\ raw = EmptyMap
    /\ opts = ZeroOptions
    /\ heap = <<>>
    /\ optsCfg = ZeroOptionsConfig
    /\ dimensions = EmptyMap
    /\ combos = <<>>
    /\ entries = <<>>
    /\ entriesNil = TRUE
    /\ outputs = <<>>
    /\ pc = "BuildExpanderOptions"

\* the state at the entry of run() with a well-formed config file
Start(r, c) == StartFile(JSONFile(r), c)

Init ==
    \/ \E r \in ExpandConfigs \cup {ScenarioConfig} : Start(r, NoInputs)
    \/ \E r \in RuleConfigs, c \in RuleInputs : Start(r, c)
    \/ \E r \in TargetConfigs, c \in TargetInputs : Start(r, c)
    \/ \E r \in ChangeConfigs, c \in ChangeInputs : Start(r, c)
    \/ \E r \in MalformedConfigs : Start(r, NoInputs)
    \/ \E r \in OverrideConfigs : Start(r, NoInputs)
    \/ \E f \in ConfigFiles, c \in ErrorInputs : StartFile(f, c)

\* main.go:24-27
RunBuildExpanderOptions ==
    /\ pc = "BuildExpanderOptions"
    /\ IF BuildExpanderOptionsErr(cfg) # ""
       THEN pc' = "Failed" /\ UNCHANGED <<opts, heap>>
       ELSE /\ opts' = BuildExpanderOptions(cfg)
            /\ heap' = cfg.Include
            /\ pc' = "ParseConfigFile"
    /\ UNCHANGED <<configFile, cfg, raw, dimensions, optsCfg, combos, entries, entriesNil,
                   outputs>>

\* the config file read with an empty matrix written before the error is
\* returned
RunParseConfigFile_EmptyMatrixOnError ==
    /\ pc = "ParseConfigFile"
    /\ LET r == ParseConfigFile(configFile)
       IN  IF r.err # ""
           THEN /\ pc' = "Failed"
                /\ outputs' = <<[name |-> "matrix", value |-> List(<<>>)]>>
                /\ UNCHANGED raw
           ELSE raw' = r.raw /\ pc' = "ParseOptions" /\ UNCHANGED outputs
    /\ UNCHANGED <<configFile, cfg, dimensions, optsCfg, opts, combos, entries, heap,
                   entriesNil>>

\* main.go:29-32
RunParseConfigFile ==
    /\ pc = "ParseConfigFile"
    /\ LET r == ParseConfigFile(configFile)
       IN  IF r.err # ""
           THEN pc' = "Failed" /\ UNCHANGED raw
           ELSE raw' = r.raw /\ pc' = "ParseOptions"
    /\ UNCHANGED <<configFile, cfg, dimensions, optsCfg, opts, combos, entries, heap,
                   entriesNil, outputs>>

\* main.go:34-37
RunParseOptions ==
    /\ pc = "ParseOptions"
    /\ LET r == ParseOptions(raw, heap)
       IN  /\ optsCfg' = r.optsCfg
           /\ dimensions' = r.dimensions
           /\ heap' = r.heap
           /\ opts' = [opts EXCEPT !.FilterKey = r.optsCfg.DimensionKey]
    /\ pc' = "ResolveTarget"
    /\ UNCHANGED <<configFile, cfg, raw, combos, entries, entriesNil, outputs>>

\* main.go:40
RunResolveTarget ==
    /\ pc = "ResolveTarget"
    /\ LET r == ResolveTarget(dimensions, optsCfg, opts, cfg.DimensionKey)
       IN  /\ dimensions' = r.dimensions
           /\ optsCfg' = r.optsCfg
           /\ opts' = r.opts
    /\ pc' = "ChangeDetection"
    /\ UNCHANGED <<configFile, cfg, raw, combos, entries, heap, entriesNil, outputs>>

\* the outputs written when no value has changed, main.go:60-61
EmptyMatrixOutputs ==
    <<[name |-> "matrix", value |-> List(<<>>)],
      [name |-> "changes_detected", value |-> Str(T_false)]>>

\* the change detection going on to Expand when no value has changed
RunChangeDetection_ExpandEmpty ==
    /\ pc = "ChangeDetection"
    /\ LET d == ChangeDetection(cfg, dimensions, optsCfg, opts)
       IN  /\ opts' = d.opts
           /\ pc' = IF d.exit = "error" THEN "Failed" ELSE "Expand"
    /\ UNCHANGED <<configFile, cfg, raw, dimensions, optsCfg, combos, entries, heap, entriesNil, outputs>>

\* main.go:43-84
RunChangeDetection ==
    /\ pc = "ChangeDetection"
    /\ LET d == ChangeDetection(cfg, dimensions, optsCfg, opts)
       IN  /\ opts' = d.opts
           /\ outputs' = IF d.exit = "empty" THEN EmptyMatrixOutputs ELSE outputs
           /\ pc' = CASE d.exit = "expand" -> "Expand"
                      [] d.exit = "empty"  -> "Exit"
                      [] d.exit = "error"  -> "Failed"
    /\ UNCHANGED <<configFile, cfg, raw, dimensions, optsCfg, combos, entries, heap, entriesNil>>

\* Expand, lines 223-241: the product and the merge, each entry a new map
ExpandBuild ==
    /\ pc = "Expand"
    /\ LET maps == ExpandProduct(dimensions, optsCfg)
       IN  /\ heap' = heap \o maps
           /\ entries' = [i \in 1..Len(maps) |-> Len(heap) + i]
    /\ combos' = IF Len(extractDimensions(dimensions)) = 0 THEN <<>>
                 ELSE cartesianProduct(extractDimensions(dimensions))
    /\ entriesNil' = FALSE
    /\ pc' = "OptionsExclude"
    /\ UNCHANGED <<configFile, cfg, raw, dimensions, optsCfg, opts, outputs>>

\* Expand, lines 243-246
ExpandOptionsExclude ==
    /\ pc = "OptionsExclude"
    /\ entries' = OptionsExclude(entries, optsCfg, heap)
    /\ entriesNil' = (IF Len(optsCfg.Exclude) > 0 THEN entries' = <<>> ELSE entriesNil)
    /\ pc' = "OptionsInclude"
    /\ UNCHANGED <<configFile, cfg, raw, dimensions, optsCfg, opts, combos, heap, outputs>>

\* the options-level include with the options-level exclude applied after it
ExpandOptionsInclude_ExcludeAfter ==
    /\ pc = "OptionsInclude"
    /\ entries' = OptionsExclude(OptionsInclude(entries, optsCfg), optsCfg, heap)
    /\ entriesNil' = (IF Len(optsCfg.Exclude) > 0 THEN entries' = <<>> ELSE entriesNil)
    /\ pc' = "FilterKey"
    /\ UNCHANGED <<configFile, cfg, raw, dimensions, optsCfg, opts, combos, heap, outputs>>

\* Expand, lines 248-251
ExpandOptionsInclude ==
    /\ pc = "OptionsInclude"
    /\ entries' = OptionsInclude(entries, optsCfg)
    /\ entriesNil' = (Len(optsCfg.Include) = 0 /\ entriesNil)
    /\ pc' = "FilterKey"
    /\ UNCHANGED <<configFile, cfg, raw, dimensions, optsCfg, opts, combos, heap, outputs>>

\* Expand, lines 253-256
ExpandFilterKey ==
    /\ pc = "FilterKey"
    /\ entries' = FilterKey(entries, opts, heap)
    /\ entriesNil' = (IF Len(opts.FilterValues) > 0 /\ opts.FilterKey # V_empty THEN entries' = <<>>
                      ELSE entriesNil)
    /\ pc' = "FilterEnvironment"
    /\ UNCHANGED <<configFile, cfg, raw, dimensions, optsCfg, opts, combos, heap, outputs>>

\* Expand, lines 257-259
ExpandFilterEnvironment ==
    /\ pc = "FilterEnvironment"
    /\ entries' = FilterEnvironment(entries, opts, heap)
    /\ entriesNil' = (IF Len(opts.EnvironmentFilter) > 0 THEN entries' = <<>> ELSE entriesNil)
    /\ pc' = "InputExclude"
    /\ UNCHANGED <<configFile, cfg, raw, dimensions, optsCfg, opts, combos, heap, outputs>>

\* Expand, lines 261-264
ExpandInputExclude ==
    /\ pc = "InputExclude"
    /\ entries' = InputExclude(entries, opts, heap)
    /\ entriesNil' = (IF Len(opts.InputExclude) > 0 THEN entries' = <<>> ELSE entriesNil)
    /\ pc' = "InputInclude"
    /\ UNCHANGED <<configFile, cfg, raw, dimensions, optsCfg, opts, combos, heap, outputs>>

\* Expand, lines 266-269
ExpandInputInclude ==
    /\ pc = "InputInclude"
    /\ entries' = InputInclude(entries, opts)
    /\ entriesNil' = (Len(opts.InputInclude) = 0 /\ entriesNil)
    /\ pc' = "Directory"
    /\ UNCHANGED <<configFile, cfg, raw, dimensions, optsCfg, opts, combos, heap, outputs>>

\* Expand, lines 271-272
ExpandDirectory ==
    /\ pc = "Directory"
    /\ heap' = addDirectoryField(entries, optsCfg, heap)
    /\ pc' = "Sort"
    /\ UNCHANGED <<configFile, cfg, raw, dimensions, optsCfg, opts, combos, entries, entriesNil, outputs>>

\* Expand, lines 274-281
ExpandSort ==
    /\ pc = "Sort"
    /\ entries' = sortEntries(entries, SortKeys(optsCfg), heap)
    /\ pc' = "Done"
    /\ UNCHANGED <<configFile, cfg, raw, dimensions, optsCfg, opts, combos, heap, entriesNil, outputs>>

\* json.Marshal(entries): null for the nil slice, else the array of the maps
Marshal(entries_, isNil, h) ==
    IF isNil THEN Null ELSE List([i \in 1..Len(entries_) |-> Map(h[entries_[i]])])

\* main.go:91-104, Expand having returned (pc = "Done")
RunOutputs ==
    /\ pc = "Done"
    /\ outputs' =
          <<[name |-> "matrix", value |-> Marshal(entries, entriesNil, heap)]>>
          \o (IF cfg.ChangeDetection
              THEN <<[name |-> "changes_detected",
                      value |-> Str(IF Len(entries) > 0 THEN T_true ELSE T_false)]>>
              ELSE <<>>)
    /\ pc' = "Exit"
    /\ UNCHANGED <<configFile, cfg, raw, dimensions, optsCfg, opts, combos, entries, heap, entriesNil>>

Next ==
    \/ RunBuildExpanderOptions
    \/ RunParseConfigFile
    \/ RunParseOptions
    \/ RunResolveTarget
    \/ RunChangeDetection
    \/ ExpandBuild
    \/ ExpandOptionsExclude
    \/ ExpandOptionsInclude
    \/ ExpandFilterKey
    \/ ExpandFilterEnvironment
    \/ ExpandInputExclude
    \/ ExpandInputInclude
    \/ ExpandDirectory
    \/ ExpandSort
    \/ RunOutputs

Spec == Init /\ [][Next]_vars

\* ------------------------------------------------------------------------
\* The run with the "length", "config" and per-field outputs: the main.go
\* of CHANGELOG.md:113-311
\* ------------------------------------------------------------------------
RECURSIVE InsertEntry(_, _, _)
\* buildConfigBlob, the walk along the values of one entry: the node current
\* with the entry stored under its path of stringified values, the nodes on
\* the way made when missing
InsertEntry(current, path, entry) ==
    IF path = <<>> THEN current
    ELSE IF Len(path) = 1 THEN Put(current, path[1], Map(entry))
    ELSE LET next == IF path[1] \in DOMAIN current THEN current[path[1]].m ELSE EmptyMap
         IN  Put(current, path[1], Map(InsertEntry(next, Tail(path), entry)))

RECURSIVE buildConfigBlob(_, _, _)
\* buildConfigBlob: the nested map of the entries that have every key of
\* dimKeys, a later entry replacing an earlier one stored under the same path
buildConfigBlob(entries_, dimKeys, h) ==
    IF entries_ = <<>> THEN EmptyMap
    ELSE LET root  == buildConfigBlob(SubSeq(entries_, 1, Len(entries_) - 1), dimKeys, h)
             entry == h[entries_[Len(entries_)]]
         IN  IF \E i \in 1..Len(dimKeys) : dimKeys[i] \notin DOMAIN entry THEN root
             ELSE InsertEntry(root, [i \in 1..Len(dimKeys) |-> Sprint(entry[dimKeys[i]])],
                              entry)

\* the output names that no field of a single entry is written under:
\* "matrix", "changes_detected", "config", "length"
reservedOutputs ==
    { <<109, 97, 116, 114, 105, 120>>,
      <<99, 104, 97, 110, 103, 101, 115, 95, 100, 101, 116, 101, 99, 116, 101, 100>>,
      <<99, 111, 110, 102, 105, 103>>,
      <<108, 101, 110, 103, 116, 104>> }

\* the orders in which the range over the fields of an entry can visit them
FieldOrders(entry) ==
    {o \in [1..Cardinality(DOMAIN entry) -> DOMAIN entry] :
        \A i, j \in DOMAIN o : o[i] = o[j] => i = j}

\* the outputs of a run that expanded: matrix, length, config when there is
\* an entry, one output per field of a single entry in the order the map is
\* ranged over, changes_detected under change detection
ExpandedOutputs(order) ==
    <<[name |-> "matrix", value |-> Marshal(entries, entriesNil, heap)],
      [name |-> "length", value |-> Str(Itoa(Len(entries)))]>>
    \o (IF Len(entries) > 0
        THEN <<[name |-> "config",
                value |-> Map(buildConfigBlob(entries, sortedKeys(dimensions), heap))]>>
        ELSE <<>>)
    \o (IF Len(entries) = 1
        THEN LET fields == SelectSeq(order, LAMBDA k : k \notin reservedOutputs)
             IN  [i \in 1..Len(fields) |->
                    [name |-> "field", field |-> fields[i],
                     value |-> Str(Sprint(heap[entries[1]][fields[i]]))]]
        ELSE <<>>)
    \o (IF cfg.ChangeDetection
        THEN <<[name |-> "changes_detected",
                value |-> Str(IF Len(entries) > 0 THEN T_true ELSE T_false)]>>
        ELSE <<>>)

\* CHANGELOG.md:208-249, Expand having returned (pc = "Done")
RunOutputsConfig ==
    /\ pc = "Done"
    /\ \E order \in (IF Len(entries) = 1 THEN FieldOrders(heap[entries[1]]) ELSE {<<>>}) :
          outputs' = ExpandedOutputs(order)
    /\ pc' = "Exit"
    /\ UNCHANGED <<configFile, cfg, raw, dimensions, optsCfg, opts, combos, entries, heap,
                   entriesNil>>

\* the outputs written when no value has changed, CHANGELOG.md:172-175
EmptyConfigOutputs ==
    <<[name |-> "matrix", value |-> List(<<>>)],
      [name |-> "config", value |-> Map(EmptyMap)],
      [name |-> "length", value |-> Str(Itoa(0))],
      [name |-> "changes_detected", value |-> Str(T_false)]>>

\* CHANGELOG.md:157-201
RunChangeDetectionConfig ==
    /\ pc = "ChangeDetection"
    /\ LET d == ChangeDetection(cfg, dimensions, optsCfg, opts)
       IN  /\ opts' = d.opts
           /\ outputs' = IF d.exit = "empty" THEN EmptyConfigOutputs ELSE outputs
           /\ pc' = CASE d.exit = "expand" -> "Expand"
                      [] d.exit = "empty"  -> "Exit"
                      [] d.exit = "error"  -> "Failed"
    /\ UNCHANGED <<configFile, cfg, raw, dimensions, optsCfg, combos, entries, heap,
                   entriesNil>>

\* configs and inputs for the nested output: dimensions as lists and maps,
\* a scalar setting, include entries with and without the dimension keys
BlobConfigs ==
    { Overlay(s, Overlay(e, Overlay(x, Overlay(g, i)))) :
        s \in ServiceFrags, e \in EnvFrags, x \in XFrags,
        g \in Frags(K_global, {GlobalDir}),
        i \in Frags(K_include,
                    {List(<<Map(One(K_service, Str(V_shared))),
                            Map(Overlay(One(K_service, Str(V_api)),
                                        One(K_environment, Str(V_dev))))>>)}) }
BlobInputs ==
    { [NoInputs EXCEPT !.Target = t, !.ChangeDetection = cd, !.Event = "push",
                       !.GitOutput = o] :
        t \in {<<>>, <<V_api>>, <<K_environment>>},
        cd \in BOOLEAN, o \in {O_none, O_api} }

InitConfig == \E r \in BlobConfigs, c \in BlobInputs : Start(r, c)

NextConfig ==
    \/ RunBuildExpanderOptions
    \/ RunParseConfigFile
    \/ RunParseOptions
    \/ RunResolveTarget
    \/ RunChangeDetectionConfig
    \/ ExpandBuild
    \/ ExpandOptionsExclude
    \/ ExpandOptionsInclude
    \/ ExpandFilterKey
    \/ ExpandFilterEnvironment
    \/ ExpandInputExclude
    \/ ExpandInputInclude
    \/ ExpandDirectory
    \/ ExpandSort
    \/ RunOutputsConfig

SpecConfig == InitConfig /\ [][NextConfig]_vars

\* ------------------------------------------------------------------------
\* Expand with the order in which each range over a map visits its keys made
\* explicit: perm lists the keys in the order of the visits
\* ------------------------------------------------------------------------

\* for k := range m: the keys of m in the order they are visited
RangeOf(m, perm) == SelectSeq(perm, LAMBDA k : k \in DOMAIN m)

RECURSIVE sortStrings(_)
\* sort.Strings on a slice of distinct strings
sortStrings(s) ==
    IF s = <<>> THEN <<>>
    ELSE LET rest == sortStrings(Tail(s))
             n    == Cardinality({i \in 1..Len(rest) : StrLess(rest[i], s[1])})
         IN  SubSeq(rest, 1, n) \o <<s[1]>> \o SubSeq(rest, n + 1, Len(rest))

\* sortedKeys returning the keys in the order the range visited them
sortedKeysRanged_Unsorted(m, perm) == RangeOf(m, perm)

\* sortedKeys, expander.go:592-599: the keys appended in the order of the
\* range, then sorted
sortedKeysRanged(m, perm) == sortStrings(RangeOf(m, perm))

RECURSIVE OverlayRanged(_, _, _)
\* for k, v := range src { dst[k] = v }, the keys visited in the order keys
OverlayRanged(dst, src, keys) ==
    IF keys = <<>> THEN dst
    ELSE OverlayRanged(Put(dst, keys[1], src[keys[1]]), src, Tail(keys))

RECURSIVE DimsOfRanged(_, _, _)
\* the loop of extractDimensions over the keys sortedKeys returned
DimsOfRanged(raw_, keys, perm) ==
    IF keys = <<>> THEN <<>>
    ELSE LET k == keys[1]
             v == raw_[k]
             d == IF toSlice(v) THEN <<[key |-> k, values |-> v.l]>>
                  ELSE IF isMap(v)
                       THEN <<[key |-> k,
                               values |-> [i \in 1..Len(sortedKeysRanged(v.m, perm)) |->
                                              Str(sortedKeysRanged(v.m, perm)[i])]]>>
                  ELSE <<>>
         IN  d \o DimsOfRanged(raw_, Tail(keys), perm)

RECURSIVE ValConfigsRanged(_, _, _, _, _)
\* mergeConfig step 4 with the range over each per-value config
ValConfigsRanged(entry, combo, dimKeys, raw_, perm) ==
    IF dimKeys = <<>> THEN entry
    ELSE LET dimKey   == dimKeys[1]
             dimValue == Sprint(combo[dimKey])
             dimMap   == Get(raw_, dimKey)
             valConfig == IF isMap(dimMap) THEN Get(dimMap.m, dimValue) ELSE Null
             next     == IF isMap(valConfig)
                         THEN OverlayRanged(entry, valConfig.m, RangeOf(valConfig.m, perm))
                         ELSE entry
         IN  ValConfigsRanged(next, combo, Tail(dimKeys), raw_, perm)

\* mergeConfig, the body of the loop, with its four ranges
MergeOneRanged(combo, baseConfig, globalConfig, raw_, perm) ==
    ValConfigsRanged(
        OverlayRanged(
            OverlayRanged(OverlayRanged(EmptyMap, baseConfig, RangeOf(baseConfig, perm)),
                          globalConfig, RangeOf(globalConfig, perm)),
            combo, RangeOf(combo, perm)),
        combo, sortedKeysRanged(combo, perm), raw_, perm)

\* Expand, lines 223-241, with the ranges of extractDimensions, of
\* extractBaseConfig, of mergeConfig and of the copy of a config without
\* dimensions
ExpandProductRanged(raw_, optsCfg_, perm) ==
    LET dims == DimsOfRanged(raw_, sortedKeysRanged(raw_, perm), perm)
        base == OverlayRanged(EmptyMap, raw_,
                              SelectSeq(RangeOf(raw_, perm),
                                        LAMBDA k : ~toSlice(raw_[k]) /\ ~isMap(raw_[k])))
        product == cartesianProduct(dims)
    IN  IF Len(dims) = 0 THEN <<OverlayRanged(EmptyMap, raw_, RangeOf(raw_, perm))>>
        ELSE [i \in 1..Len(product) |->
                 MergeOneRanged(product[i], base, optsCfg_.GlobalConfig, raw_, perm)]

RECURSIVE matchesPatternRanged(_, _, _)
\* matchesPattern, the loop over the keys of the pattern: false at the first
\* key the entry lacks or has another text for
matchesPatternRanged(entry, pattern, keys) ==
    IF keys = <<>> THEN TRUE
    ELSE IF keys[1] \notin DOMAIN entry THEN FALSE
    ELSE IF Sprint(entry[keys[1]]) # Sprint(pattern[keys[1]]) THEN FALSE
    ELSE matchesPatternRanged(entry, pattern, Tail(keys))

\* applyExclude with the range of matchesPattern
applyExcludeRanged(entries_, patterns, h, perm) ==
    SelectSeq(entries_,
              LAMBDA r : ~\E i \in 1..Len(patterns) :
                             matchesPatternRanged(h[r], patterns[i],
                                                  RangeOf(patterns[i], perm)))

RECURSIVE Orders(_)
\* the orders in which the keys of S can be visited
Orders(S) == IF S = {} THEN {<<>>}
             ELSE UNION {{<<x>> \o p : p \in Orders(S \ {x})} : x \in S}

\* the keys of the maps that the product and the merge range over
BuildKeys ==
    DOMAIN dimensions \cup DOMAIN optsCfg.GlobalConfig
    \cup UNION {DOMAIN dimensions[k].m : k \in {d \in DOMAIN dimensions : isMap(dimensions[d])}}
    \cup UNION {UNION {DOMAIN dimensions[k].m[v].m :
                          v \in {w \in DOMAIN dimensions[k].m : isMap(dimensions[k].m[w])}} :
                   k \in {d \in DOMAIN dimensions : isMap(dimensions[d])}}

\* the keys of the patterns of an exclude list
PatternKeys(patterns) == UNION {DOMAIN patterns[i] : i \in 1..Len(patterns)}

\* Expand, lines 223-241, under some order of the ranges
ExpandBuildRanged ==
    /\ pc = "Expand"
    /\ \E perm \in Orders(BuildKeys) :
          LET maps == ExpandProductRanged(dimensions, optsCfg, perm)
          IN  /\ heap' = heap \o maps
              /\ entries' = [i \in 1..Len(maps) |-> Len(heap) + i]
    /\ combos' = IF Len(extractDimensions(dimensions)) = 0 THEN <<>>
                 ELSE cartesianProduct(extractDimensions(dimensions))
    /\ entriesNil' = FALSE
    /\ pc' = "OptionsExclude"
    /\ UNCHANGED <<configFile, cfg, raw, dimensions, optsCfg, opts, outputs>>

\* Expand, lines 243-246, under some order of the ranges
ExpandOptionsExcludeRanged ==
    /\ pc = "OptionsExclude"
    /\ \E perm \in Orders(PatternKeys(optsCfg.Exclude)) :
          entries' = IF Len(optsCfg.Exclude) > 0
                     THEN applyExcludeRanged(entries, optsCfg.Exclude, heap, perm)
                     ELSE entries
    /\ entriesNil' = (IF Len(optsCfg.Exclude) > 0 THEN entries' = <<>> ELSE entriesNil)
    /\ pc' = "OptionsInclude"
    /\ UNCHANGED <<configFile, cfg, raw, dimensions, optsCfg, opts, combos, heap, outputs>>

\* Expand, lines 262-264, under some order of the ranges
ExpandInputExcludeRanged ==
    /\ pc = "InputExclude"
    /\ \E perm \in Orders(PatternKeys(opts.InputExclude)) :
          entries' = IF Len(opts.InputExclude) > 0
                     THEN applyExcludeRanged(entries, opts.InputExclude, heap, perm)
                     ELSE entries
    /\ entriesNil' = (IF Len(opts.InputExclude) > 0 THEN entries' = <<>> ELSE entriesNil)
    /\ pc' = "InputInclude"
    /\ UNCHANGED <<configFile, cfg, raw, dimensions, optsCfg, opts, combos, heap, outputs>>

\* configs and inputs whose maps have several keys: top-level keys, global
\* values, per-value configs, pattern keys
OrderConfigs ==
    { Overlay(s, Overlay(e, Overlay(x, Overlay(g, ex)))) :
        s \in Frags(K_service, {ArrayOf(2), ServiceMap}),
        e \in Frags(K_environment, {List(<<Str(V_dev)>>)}),
        x \in XFrags,
        g \in Frags(K_global, {Map(Overlay(One(K_x, Str(V_g)), One(K_acct, Num(1))))}),
        ex \in Frags(K_exclude,
                     {List(<<Map(Overlay(One(K_service, Str(V_api)),
                                         One(K_environment, Str(V_dev)))),
                             Map(Overlay(One(K_x, Str(V_top)), One(K_service, Str(V_web))))>>)}) }
OrderInputs ==
    { [NoInputs EXCEPT !.Exclude = ex] :
        ex \in {<<>>, <<Overlay(One(K_service, Str(V_web)), One(K_acct, Str(V_1)))>>} }

InitOrder == \E r \in OrderConfigs, c \in OrderInputs : Start(r, c)

NextOrder ==
    \/ RunBuildExpanderOptions
    \/ RunParseConfigFile
    \/ RunParseOptions
    \/ RunResolveTarget
    \/ RunChangeDetection
    \/ ExpandBuildRanged
    \/ ExpandOptionsExcludeRanged
    \/ ExpandOptionsInclude
    \/ ExpandFilterKey
    \/ ExpandFilterEnvironment
    \/ ExpandInputExcludeRanged
    \/ ExpandInputInclude
    \/ ExpandDirectory
    \/ ExpandSort
    \/ RunOutputs

SpecOrder == InitOrder /\ [][NextOrder]_vars

\* ------------------------------------------------------------------------
\* Properties
\* ------------------------------------------------------------------------

\* the keys of a config whose value is an array or a map
DimKeysOf(d) == {k \in DOMAIN d : isDimension(d[k])}

\* the number of values of a dimension: list items with multiplicity, map keys
DimSize(v) == IF v.t = "list" THEN Len(v.l) ELSE Cardinality(DOMAIN v.m)

RECURSIVE SizeProduct(_, _)
\* s1 * s2 * ... * sN over the dimension keys in S
SizeProduct(d, S) ==
    IF S = {} THEN 1
    ELSE LET k == CHOOSE x \in S : TRUE
         IN  DimSize(d[k]) * SizeProduct(d, S \ {k})

\* no exclude rule, no include entry and no filter is in force
NoRules ==
    /\ Len(optsCfg.Exclude) = 0 /\ Len(optsCfg.Include) = 0
    /\ Len(opts.FilterValues) = 0 /\ Len(opts.EnvironmentFilter) = 0
    /\ Len(opts.InputExclude) = 0 /\ Len(opts.InputInclude) = 0

\* the addresses of the entries built by the product
ProductRefs == {r \in 1..Len(heap) : r > Len(opts.InputInclude) + Len(optsCfg.Include)}

\* C1: without exclude rules, include entries and filters Expand returns
\* s1*...*sN entries (array items with multiplicity, map keys), one entry
\* when there is no dimension and none when some dimension has no value.
C1_ProductCount ==
    (pc = "Done" /\ NoRules) =>
        /\ Len(entries) = SizeProduct(dimensions, DimKeysOf(dimensions))
        /\ (DimKeysOf(dimensions) = {} => Len(entries) = 1)
        /\ ((\E k \in DimKeysOf(dimensions) : DimSize(dimensions[k]) = 0) => Len(entries) = 0)

\* C1 witness: two dimensions, the array one repeating a value, six entries
C1_Witness ==
    /\ pc = "Done" /\ NoRules
    /\ K_service \in DOMAIN dimensions /\ dimensions[K_service] = ArrayOf(3)
    /\ K_environment \in DOMAIN dimensions /\ dimensions[K_environment] = EnvMap
    /\ DimKeysOf(dimensions) = {K_service, K_environment}
    /\ Len(entries) = 6

\* the per-value configuration that dimension d gives combination c
PerValue(d, c) ==
    IF /\ isMap(dimensions[d])
       /\ Sprint(c[d]) \in DOMAIN dimensions[d].m
       /\ isMap(dimensions[d].m[Sprint(c[d])])
    THEN dimensions[d].m[Sprint(c[d])].m
    ELSE EmptyMap

\* the dimensions of combination c whose per-value configuration defines k
Definers(c, k) == {d \in DOMAIN c : k \in DOMAIN PerValue(d, c)}

\* the value the highest layer defining k gives it
LayerValue(c, k) ==
    IF Definers(c, k) # {}
    THEN LET top == CHOOSE d \in Definers(c, k) :
                        \A o \in Definers(c, k) : o = d \/ StrLess(o, d)
         IN  PerValue(top, c)[k]
    ELSE IF k \in DOMAIN c THEN c[k]
    ELSE IF k \in DOMAIN optsCfg.GlobalConfig THEN optsCfg.GlobalConfig[k]
    ELSE dimensions[k]

\* the keys some layer defines for combination c
LayerKeys(c) ==
    {k \in DOMAIN dimensions : ~isDimension(dimensions[k])}
        \cup DOMAIN optsCfg.GlobalConfig
        \cup DOMAIN c
        \cup UNION {DOMAIN PerValue(d, c) : d \in DOMAIN c}

\* C2: after mergeConfig every key of a product entry has the value of the
\* highest layer that defines it: scalar settings < global values < the
\* combination < per-value configs in ascending dimension-key order.
C2_MergePrecedence ==
    (pc = "OptionsExclude" /\ DimKeysOf(dimensions) # {}) =>
        /\ Len(entries) = Len(combos)
        /\ \A i \in 1..Len(entries) :
              /\ DOMAIN heap[entries[i]] = LayerKeys(combos[i])
              /\ \A k \in LayerKeys(combos[i]) :
                    heap[entries[i]][k] = LayerValue(combos[i], k)

\* C2 witness: "x" is a scalar setting, a global value and a per-value key of
\* both "environment" and "service"; the entry has the value of "service"
C2_Witness ==
    /\ pc = "OptionsExclude" /\ DimKeysOf(dimensions) # {}
    /\ K_x \in DOMAIN dimensions /\ K_x \in DOMAIN optsCfg.GlobalConfig
    /\ \E i \in 1..Len(entries) :
          /\ Definers(combos[i], K_x) = {K_environment, K_service}
          /\ heap[entries[i]][K_x] = Str(V_s)
          /\ heap[entries[i]][K_x] # PerValue(K_environment, combos[i])[K_x]

\* C3 (as claimed): without any dimension Expand builds one entry holding
\* every scalar setting and every shared value of "global".
C3_NoDimensionEntry ==
    (pc = "OptionsExclude" /\ DimKeysOf(dimensions) = {}) =>
        /\ Len(entries) = 1
        /\ \A k \in DOMAIN dimensions :
              k \in DOMAIN heap[entries[1]]
              /\ (k \notin DOMAIN optsCfg.GlobalConfig => heap[entries[1]][k] = dimensions[k])
        /\ \A k \in DOMAIN optsCfg.GlobalConfig :
              k \in DOMAIN heap[entries[1]]
              /\ (k \notin DOMAIN dimensions => heap[entries[1]][k] = optsCfg.GlobalConfig[k])

\* the claim's reading of a pattern match: every key of the pattern is in
\* the entry, with the same text once both values are stringified
PatternMatches(e, p) ==
    /\ DOMAIN p \subseteq DOMAIN e
    /\ \A k \in DOMAIN p : Sprint(e[k]) = Sprint(p[k])

\* some pattern of the list matches the entry at address r
SomeMatch(r, patterns) == \E j \in 1..Len(patterns) : PatternMatches(heap[r], patterns[j])

\* next is what is left of prev, in the same order
KeptInOrder(prev, next) ==
    /\ Range(next) \subseteq Range(prev)
    /\ next = SelectSeq(prev, LAMBDA r : r \in Range(next))

\* the effect of one exclude pass with the given patterns
ExcludeEffect(patterns) ==
    /\ KeptInOrder(entries, entries')
    /\ \A i \in 1..Len(entries) :
          (entries[i] \in Range(entries')) <=> ~SomeMatch(entries[i], patterns)
    /\ ((\E j \in 1..Len(patterns) : DOMAIN patterns[j] = {}) => entries' = <<>>)
    /\ \A i \in 1..Len(entries) :
          (\A j \in 1..Len(patterns) : ~(DOMAIN patterns[j] \subseteq DOMAIN heap[entries[i]]))
              => entries[i] \in Range(entries')
    /\ ((\A i \in 1..Len(entries) : ~SomeMatch(entries[i], patterns)) => entries' = entries)
    /\ heap' = heap

\* the step condition of C4_ExcludeSemantics
C4_ExcludeSemantics_Step ==
    /\ (pc = "OptionsExclude" /\ Len(optsCfg.Exclude) > 0) => ExcludeEffect(optsCfg.Exclude)
    /\ (pc = "InputExclude" /\ Len(opts.InputExclude) > 0) => ExcludeEffect(opts.InputExclude)

\* C4: each exclude pass removes exactly the entries matched by at least one
\* pattern of its list (all pattern keys present, stringified values equal);
\* {} removes everything, a pattern with a key the entry lacks never matches,
\* and patterns matching nothing leave the list and its order unchanged.
C4_ExcludeSemantics == [][C4_ExcludeSemantics_Step]_vars

\* C4 witness: the pattern {acct: "1", service: "api"} has removed a product
\* entry whose acct is the number 1 and one whose acct is the string "1",
\* and has kept the entries of another service
C4_Witness ==
    /\ pc = "OptionsInclude"
    /\ optsCfg.Exclude = <<Overlay(One(K_acct, Str(V_1)), One(K_service, Str(V_api)))>>
    /\ \E r \in ProductRefs :
          r \notin Range(entries) /\ K_acct \in DOMAIN heap[r] /\ heap[r][K_acct] = Num(1)
    /\ \E r \in ProductRefs :
          r \notin Range(entries) /\ K_acct \in DOMAIN heap[r] /\ heap[r][K_acct] = Str(V_1)
    /\ \E r \in ProductRefs :
          r \in Range(entries) /\ K_acct \in DOMAIN heap[r] /\ heap[r][K_acct] = Num(1)

\* the stages of Expand after the product, in order
StageOrder ==
    <<"OptionsExclude", "OptionsInclude", "FilterKey", "FilterEnvironment",
      "InputExclude", "InputInclude", "Directory", "Sort", "Done">>

\* the step condition of C5_StageOrder
C5_StageOrder_Step ==
    /\ \A i \in 1..(Len(StageOrder) - 1) : pc = StageOrder[i] => pc' = StageOrder[i + 1]
    /\ pc = "OptionsExclude" => Range(optsCfg.Include) \cap Range(entries') = {}
    /\ pc = "OptionsInclude" => Range(optsCfg.Include) \subseteq Range(entries')
    /\ pc = "InputExclude" =>
          /\ \A r \in Range(entries') : ~SomeMatch(r, opts.InputExclude)
          /\ Range(opts.InputInclude) \cap Range(entries') = {}
    /\ pc = "InputInclude" => Range(opts.InputInclude) \subseteq Range(entries')
    /\ pc' = "Done" => Range(opts.InputInclude) \subseteq Range(entries')

\* C5: Expand applies config exclude, config include, primary filter,
\* environment filter, caller exclude, caller include, directory, sort, in
\* this order; so an exclude list never removes an include entry of its own
\* level, while the caller's exclude patterns do apply to config includes.
C5_StageOrder == [][C5_StageOrder_Step]_vars

\* C5 witness: a config include entry that a config exclude pattern matches
\* is in the output, and another one was removed by the caller's exclude
C5_Witness ==
    /\ pc = "Done"
    /\ \E r \in Range(optsCfg.Include) : r \in Range(entries) /\ SomeMatch(r, optsCfg.Exclude)
    /\ \E r \in Range(optsCfg.Include) : r \notin Range(entries) /\ SomeMatch(r, opts.InputExclude)
    /\ \E r \in Range(opts.InputInclude) : r \in Range(entries) /\ SomeMatch(r, opts.InputExclude)

\* the include entries as supplied: by the config file and by the caller
SuppliedOptionsInclude == 
    IF K_include \in DOMAIN raw /\ toSlice(raw[K_include]) THEN MapItems(raw[K_include].l) ELSE <<>>
SuppliedInputInclude == cfg.Include

\* the directory the claim expects for an entry with the primary key
ExpectedDirectory(e) ==
    IF optsCfg.BaseDir = V_empty THEN Str(Sprint(e[optsCfg.DimensionKey]))
    ELSE Str(optsCfg.BaseDir \o <<47>> \o Sprint(e[optsCfg.DimensionKey]))

\* an include entry as the amended C6 expects it at the end of Expand
IncludeAtEnd(r, supplied) ==
    IF r \in Range(entries) /\ optsCfg.DimensionKey \in DOMAIN supplied
    THEN /\ DOMAIN heap[r] = DOMAIN supplied \cup {K_directory}
         /\ \A k \in DOMAIN supplied \ {K_directory} : heap[r][k] = supplied[k]
         /\ heap[r][K_directory] = ExpectedDirectory(supplied)
    ELSE heap[r] = supplied

\* C6 (as claimed): every include entry in the output has exactly the fields
\* supplied, and the caller's include entries are not modified by the call.
C6_IncludeVerbatim ==
    pc = "Done" =>
        /\ \A i \in 1..Len(opts.InputInclude) : heap[opts.InputInclude[i]] = SuppliedInputInclude[i]
        /\ \A i \in 1..Len(optsCfg.Include) : heap[optsCfg.Include[i]] = SuppliedOptionsInclude[i]

\* C6 (amended): an include entry is unchanged unless it is in the output and
\* has the primary dimension key; then only its directory field is set, to
\* baseDir/value (value without base directory), in the caller's map itself.
C6_IncludeDirectoryOnly ==
    /\ pc \notin {"BuildExpanderOptions", "ParseOptions", "Failed"} =>
          /\ Len(optsCfg.Include) = Len(SuppliedOptionsInclude)
          /\ Len(opts.InputInclude) = Len(SuppliedInputInclude)
    /\ pc \in {"ResolveTarget", "ChangeDetection", "Expand", "OptionsExclude", "OptionsInclude", "FilterKey",
               "FilterEnvironment", "InputExclude", "InputInclude", "Directory"} =>
          /\ \A i \in 1..Len(opts.InputInclude) : heap[opts.InputInclude[i]] = SuppliedInputInclude[i]
          /\ \A i \in 1..Len(optsCfg.Include) : heap[optsCfg.Include[i]] = SuppliedOptionsInclude[i]
    /\ pc \in {"Sort", "Done"} =>
          /\ \A i \in 1..Len(opts.InputInclude) :
                IncludeAtEnd(opts.InputInclude[i], SuppliedInputInclude[i])
          /\ \A i \in 1..Len(optsCfg.Include) :
                IncludeAtEnd(optsCfg.Include[i], SuppliedOptionsInclude[i])

\* C6 witness: the config include entry {service: api, environment: dev,
\* directory: old} is in the output with directory deploy/api
C6_Witness ==
    /\ pc = "Done"
    /\ optsCfg.BaseDir = V_deploy
    /\ \E i \in 1..Len(optsCfg.Include) :
          /\ optsCfg.Include[i] \in Range(entries)
          /\ K_directory \in DOMAIN SuppliedOptionsInclude[i]
          /\ SuppliedOptionsInclude[i][K_directory] = Str(V_old)
          /\ heap[optsCfg.Include[i]][K_directory] = Str(V_deploy \o T_slash \o V_api)
    /\ \E i \in 1..Len(opts.InputInclude) :
          /\ opts.InputInclude[i] \in Range(entries)
          /\ heap[opts.InputInclude[i]] = SuppliedInputInclude[i]

\* the filters let the entry at address r pass
PassesKey(r) ==
    Len(opts.FilterValues) > 0 =>
        /\ optsCfg.DimensionKey \in DOMAIN heap[r]
        /\ \E j \in 1..Len(opts.FilterValues) :
              Sprint(heap[r][optsCfg.DimensionKey]) = opts.FilterValues[j]
PassesEnvironment(r) ==
    Len(opts.EnvironmentFilter) > 0 =>
        /\ K_environment \in DOMAIN heap[r]
        /\ \E j \in 1..Len(opts.EnvironmentFilter) :
              Sprint(heap[r][K_environment]) = opts.EnvironmentFilter[j]

\* the step condition of C7_IncludeBypassesFilters
C7_IncludeBypassesFilters_Step ==
    pc \in {"FilterKey", "FilterEnvironment"} =>
        \A r \in (Range(optsCfg.Include) \cup Range(opts.InputInclude)) \cap Range(entries) :
            r \in Range(entries')

\* C7 (as claimed): no include entry, config-level or caller-level, is ever
\* removed by the primary-dimension filter or the environment filter.
C7_IncludeBypassesFilters == [][C7_IncludeBypassesFilters_Step]_vars

\* the step condition of C7_CallerIncludeBypassesFilters
C7_CallerIncludeBypassesFilters_Step ==
    /\ pc \in {"FilterKey", "FilterEnvironment"} =>
          Range(opts.InputInclude) \cap (Range(entries) \cup Range(entries')) = {}
    /\ pc' = "Done" => Range(opts.InputInclude) \subseteq Range(entries')
    /\ pc = "FilterKey" =>
          \A r \in Range(optsCfg.Include) \cap Range(entries) :
              r \in Range(entries') <=> PassesKey(r)
    /\ pc = "FilterEnvironment" =>
          \A r \in Range(optsCfg.Include) \cap Range(entries) :
              r \in Range(entries') <=> PassesEnvironment(r)

\* C7 (amended): caller-level include entries are never removed by a filter
\* (they are appended after both and all reach the output); a config-level
\* include entry is filtered like any other entry: it stays exactly when it
\* has the filtered key with an allowed value.
C7_CallerIncludeBypassesFilters == [][C7_CallerIncludeBypassesFilters_Step]_vars

\* C7 witness: both filters are set, the caller's include entries (one of
\* them without the primary key) are in the output and a config include
\* entry is not
C7_Witness ==
    /\ pc = "Done"
    /\ Len(opts.FilterValues) > 0 /\ Len(opts.EnvironmentFilter) > 0
    /\ Len(optsCfg.Exclude) = 0 /\ Len(opts.InputExclude) = 0
    /\ \E r \in Range(opts.InputInclude) :
          r \in Range(entries) /\ optsCfg.DimensionKey \notin DOMAIN heap[r]
    /\ \E r \in Range(opts.InputInclude) : r \in Range(entries) /\ ~PassesEnvironment(r)
    /\ \E r \in Range(optsCfg.Include) : r \notin Range(entries)

\* the caller gave no filter value and no exclude pattern
NoCallerFilters ==
    /\ Len(cfg.Target) = 0 /\ Len(cfg.Environment) = 0 /\ Len(cfg.Exclude) = 0
    /\ ~cfg.ChangeDetection

\* the config file has an include list
HasIncludeList == K_include \in DOMAIN raw /\ toSlice(raw[K_include])

\* the number of entries output for the config without its "include" key
CountWithoutOptionsInclude == Len(Run(Delete(raw, K_include), cfg).entries)

\* the number of entries output when the caller gives no include entry
CountWithoutInputInclude == Len(Run(raw, [cfg EXCEPT !.Include = <<>>]).entries)

\* C8 (as claimed): without caller filters and caller exclude, an include
\* list adds exactly as many entries to the output as it has items.
C8_IncludeAddsItems ==
    (pc = "Done" /\ NoCallerFilters) =>
        /\ HasIncludeList =>
              Len(entries) = CountWithoutOptionsInclude + Len(raw[K_include].l)
        /\ Len(entries) = CountWithoutInputInclude + Len(cfg.Include)

\* C8 (amended): without caller filters and caller exclude, the include list
\* of the config adds exactly as many entries as it has mapping items (its
\* other items are dropped by ParseOptions), and the caller's include list
\* adds exactly as many entries as it has items.
C8_IncludeAddsMappingItems ==
    (pc = "Done" /\ NoCallerFilters) =>
        /\ HasIncludeList =>
              Len(entries) = CountWithoutOptionsInclude + Len(MapItems(raw[K_include].l))
        /\ Len(entries) = CountWithoutInputInclude + Len(cfg.Include)

\* C8 witness: an include list of four items, one of them not a mapping,
\* has added three entries, and the caller's two include entries two more
C8_Witness ==
    /\ pc = "Done" /\ NoCallerFilters
    /\ HasIncludeList /\ Len(raw[K_include].l) = 4
    /\ Len(cfg.Include) = 2
    /\ CountWithoutOptionsInclude > 2
    /\ Len(entries) = CountWithoutOptionsInclude + 3
    /\ Len(entries) = CountWithoutInputInclude + 2

\* the effect of one allow-list filter on key with a non-empty list
FilterEffect(key, allowed) ==
    /\ KeptInOrder(entries, entries')
    /\ \A i \in 1..Len(entries) :
          (entries[i] \in Range(entries')) <=>
              /\ key \in DOMAIN heap[entries[i]]
              /\ \E j \in 1..Len(allowed) : Sprint(heap[entries[i]][key]) = allowed[j]
    /\ heap' = heap

\* the step condition of C9_FilterSemantics
C9_FilterSemantics_Step ==
    /\ pc = "FilterKey" =>
          /\ pc' = "FilterEnvironment"
          /\ IF Len(opts.FilterValues) > 0
             THEN FilterEffect(optsCfg.DimensionKey, opts.FilterValues)
             ELSE entries' = entries
    /\ pc = "FilterEnvironment" =>
          /\ pc' = "InputExclude"
          /\ IF Len(opts.EnvironmentFilter) > 0
             THEN FilterEffect(K_environment, opts.EnvironmentFilter)
             ELSE entries' = entries

\* C9: the primary-dimension filter, then the "environment" filter; each
\* keeps exactly the entries that have its key with a stringified value in
\* its list, drops the entries lacking the key, keeps the order, and keeps
\* everything when its list is empty.
C9_FilterSemantics == [][C9_FilterSemantics_Step]_vars

\* C9 witness: both filters were applied, entries are left, and a config
\* include entry without "environment" is gone though it passed the first
C9_Witness ==
    /\ pc = "InputExclude"
    /\ Len(opts.FilterValues) > 0 /\ Len(opts.EnvironmentFilter) > 0
    /\ Len(optsCfg.Exclude) = 0
    /\ Len(entries) > 0
    /\ \E r \in Range(optsCfg.Include) :
          /\ r \notin Range(entries)
          /\ PassesKey(r)
          /\ K_environment \notin DOMAIN heap[r]

\* the caller's override names a dimension other than the configured key
ExplicitOverride ==
    /\ cfg.DimensionKey # V_empty
    /\ cfg.DimensionKey # optsCfg.DimensionKey
    /\ cfg.DimensionKey \in DOMAIN dimensions
    /\ isDimension(dimensions[cfg.DimensionKey])

\* the step condition of C10_ExplicitOverride
C10_ExplicitOverride_Step ==
    (pc = "ResolveTarget" /\ ExplicitOverride) =>
        /\ optsCfg.DimensionKey \notin DOMAIN dimensions'
        /\ optsCfg'.DimensionKey = cfg.DimensionKey
        /\ opts'.FilterKey = cfg.DimensionKey
        /\ opts'.FilterValues = opts.FilterValues
        /\ DOMAIN dimensions' = (DOMAIN dimensions) \ {optsCfg.DimensionKey}
        /\ \A k \in DOMAIN dimensions' : dimensions'[k] = dimensions[k]

\* C10: when the override is non-empty, differs from the configured primary
\* key and names an array or map of the dimension set, ResolveTarget deletes
\* the configured key, makes the override the primary key and the filter
\* key, keeps the filter values and does not evaluate the auto-detection.
C10_ExplicitOverride == [][C10_ExplicitOverride_Step]_vars

\* C10 witness: the override "region" replaced "service" although the single
\* filter value "environment" names a dimension; the value is still there
C10_Witness ==
    /\ pc = "Expand"
    /\ cfg.DimensionKey = K_region
    /\ K_global \notin DOMAIN raw /\ K_service \in DOMAIN raw
    /\ optsCfg.DimensionKey = K_region /\ opts.FilterKey = K_region
    /\ K_service \notin DOMAIN dimensions
    /\ K_environment \in DOMAIN dimensions /\ isDimension(dimensions[K_environment])
    /\ opts.FilterValues = <<K_environment>>

\* the stringified values of the primary dimension (empty when it is none)
PrimaryValueSet ==
    LET k == optsCfg.DimensionKey
    IN  IF k \notin DOMAIN dimensions THEN {}
        ELSE IF dimensions[k].t = "list"
             THEN {Sprint(dimensions[k].l[i]) : i \in 1..Len(dimensions[k].l)}
        ELSE IF dimensions[k].t = "map" THEN DOMAIN dimensions[k].m
        ELSE {}

\* the single filter value names a dimension of the dimension set
SingleValueNamesDimension ==
    /\ Len(opts.FilterValues) = 1
    /\ opts.FilterValues[1] \in DOMAIN dimensions
    /\ dimensions[opts.FilterValues[1]].t \in {"list", "map"}

\* the auto-detect path applies
AutoDetect ==
    /\ ~ExplicitOverride
    /\ SingleValueNamesDimension
    /\ opts.FilterValues[1] \notin PrimaryValueSet

\* the step condition of C11_AutoDetect
C11_AutoDetect_Step ==
    /\ (pc = "ResolveTarget" /\ AutoDetect) =>
          /\ dimensions' = [k \in (DOMAIN dimensions) \ {optsCfg.DimensionKey} |-> dimensions[k]]
          /\ optsCfg'.DimensionKey = opts.FilterValues[1]
          /\ opts'.FilterKey = opts.FilterValues[1]
          /\ opts'.FilterValues = <<>>
    /\ (pc = "ResolveTarget" /\ Len(opts.FilterValues) # 1) =>
          /\ opts'.FilterValues = opts.FilterValues
          /\ ~ExplicitOverride => UNCHANGED <<dimensions, optsCfg, opts>>
    /\ (pc = "FilterKey" /\ Len(opts.FilterValues) = 0) => entries' = entries

\* C11: auto-detect applies only without an explicit swap and with exactly
\* one filter value; when that value names an array or map of the dimension
\* set and is no value of the primary dimension, the configured primary
\* dimension is deleted, the primary key and the filter key become the value
\* and the filter values are cleared, so Expand filters no primary value;
\* with zero or several filter values there is no auto-detect swap.
C11_AutoDetect == [][C11_AutoDetect_Step]_vars

\* C11 witness: the single value "environment" switched the primary key from
\* "service", and every combination of the remaining dimensions is output
C11_Witness ==
    /\ pc = "Done"
    /\ cfg.Target = <<K_environment>> /\ cfg.DimensionKey = V_empty
    /\ K_global \notin DOMAIN raw
    /\ K_service \in DOMAIN raw /\ raw[K_service].t \in {"list", "map"}
    /\ K_service \notin DOMAIN dimensions
    /\ optsCfg.DimensionKey = K_environment /\ opts.FilterKey = K_environment
    /\ opts.FilterValues = <<>>
    /\ K_region \in DOMAIN dimensions
    /\ Len(entries) = SizeProduct(dimensions, DimKeysOf(dimensions))
    /\ Len(entries) >= 4

\* the single filter value names a dimension and is a primary value as well
Ambiguous ==
    /\ ~ExplicitOverride
    /\ SingleValueNamesDimension
    /\ opts.FilterValues[1] \in PrimaryValueSet

\* the step condition of C12_AmbiguousSwitches
C12_AmbiguousSwitches_Step ==
    (pc = "ResolveTarget" /\ Ambiguous) =>
        /\ optsCfg'.DimensionKey = opts.FilterValues[1]
        /\ optsCfg.DimensionKey \notin DOMAIN dimensions'
        /\ opts'.FilterValues = <<>>

\* C12 (as claimed): a single filter value that is both the name of a
\* dimension and a value of the primary dimension switches the primary key
\* to that name, deletes the old primary dimension and clears the filter.
C12_AmbiguousSwitches == [][C12_AmbiguousSwitches_Step]_vars

\* the step condition of C12_AmbiguousFilters
C12_AmbiguousFilters_Step ==
    (pc = "ResolveTarget" /\ Ambiguous) => UNCHANGED <<dimensions, optsCfg, opts>>

\* C12 (amended): a single filter value that is both the name of a dimension
\* and a value of the primary dimension is kept as a value filter: the
\* dimension set, the primary key and the filter values stay as they are.
C12_AmbiguousFilters == [][C12_AmbiguousFilters_Step]_vars

\* C12 witness: "region" is a dimension and a value of "service"; the output
\* holds the entries of service "region" only, one for each region
C12_Witness ==
    /\ pc = "Done"
    /\ cfg.Target = <<K_region>> /\ cfg.DimensionKey = V_empty
    /\ optsCfg.DimensionKey = K_service /\ opts.FilterValues = <<K_region>>
    /\ K_region \in DOMAIN dimensions /\ dimensions[K_region].t = "list"
    /\ K_service \in DOMAIN dimensions /\ K_region \in DOMAIN dimensions[K_service].m
    /\ Len(entries) >= 2
    /\ \A i \in 1..Len(entries) : heap[entries[i]][K_service] = Str(K_region)

\* run() up to ResolveTarget, recomputed from the inputs
Resolved ==
    LET p == ParseOptions(raw, cfg.Include)
    IN  ResolveTarget(p.dimensions, p.optsCfg,
                      [BuildExpanderOptions(cfg) EXCEPT !.FilterKey = p.optsCfg.DimensionKey],
                      cfg.DimensionKey)

\* the primary-dimension value filter the caller supplied (after ResolveTarget)
CallerFilterValues == Resolved.opts.FilterValues

\* change detection is on, the primary dimension exists and the changed
\* files are available
ChangesAvailable ==
    /\ cfg.ChangeDetection
    /\ ~ExtractDimensionValues(Resolved.dimensions, Resolved.optsCfg.DimensionKey).nil
    /\ ~DetectChangedFiles(cfg).err
    /\ ~DetectChangedFiles(cfg).files.nil

\* the changed values of the primary dimension
ChangedValues ==
    FilterChanged(DetectChangedFiles(cfg).files.s, Resolved.optsCfg.BaseDir,
                  ExtractDimensionValues(Resolved.dimensions, Resolved.optsCfg.DimensionKey).s)

\* C13: with change detection on, changed files available, some value
\* changed and a non-empty caller filter, every product entry of the final
\* matrix has a primary value that is in the caller's filter and has changed;
\* no product entry is output when the two have no value in common.
C13_ChangedAndFiltered ==
    (/\ pc = "Done"
     /\ ChangesAvailable
     /\ Len(ChangedValues) > 0
     /\ Len(CallerFilterValues) > 0) =>
        \A r \in Range(entries) \cap ProductRefs :
            /\ optsCfg.DimensionKey \in DOMAIN heap[r]
            /\ Sprint(heap[r][optsCfg.DimensionKey])
                   \in Range(CallerFilterValues) \cap Range(ChangedValues)

\* the step condition of C14_NoChangeEmptyMatrix
C14_NoChangeEmptyMatrix_Step ==
    /\ (pc = "ChangeDetection" /\ ChangesAvailable /\ Len(ChangedValues) = 0) =>
          /\ pc' = "Exit"
          /\ outputs' = <<[name |-> "matrix", value |-> List(<<>>)],
                          [name |-> "changes_detected", value |-> Str(T_false)]>>
          /\ entries' = <<>>
    /\ pc = "Exit" => UNCHANGED vars

\* C14: with change detection on, the primary dimension present, changed
\* files available and no changed value, run() writes the matrix "[]" and
\* changes_detected "false" and returns without calling Expand: no product
\* entry and no include entry is output.
C14_NoChangeEmptyMatrix == [][C14_NoChangeEmptyMatrix_Step]_vars

\* C14 witness: a push changed files outside every known value; the run
\* ended with the empty matrix although both include lists have an entry
C14_Witness ==
    /\ pc = "Exit"
    /\ cfg.Event = "push" /\ ChangesAvailable /\ Len(ChangedValues) = 0
    /\ Len(DetectChangedFiles(cfg).files.s) > 1
    /\ Len(optsCfg.Include) > 0 /\ Len(opts.InputInclude) > 0
    /\ entries = <<>> /\ combos = <<>>
    /\ Len(outputs) = 2 /\ outputs[1].value = List(<<>>)

\* the trigger event is one that git diff is run for, and git succeeded
DiffEvent ==
    /\ cfg.Event \in {"push", "pull_request", "pull_request_target"}
    /\ ~DetectChangedFiles(cfg).err

\* C15: DetectChangedFiles returns the not-applicable sentinel (nil) only
\* for events other than push, pull_request and pull_request_target; for a
\* push or pull-request event whose diff lists no file, run() writes the empty
\* matrix and changes_detected "false" instead of passing all entries.
C15_EmptyDiffIsNoChange ==
    (/\ pc = "Exit"
     /\ cfg.ChangeDetection
     /\ ~ExtractDimensionValues(dimensions, optsCfg.DimensionKey).nil
     /\ DiffEvent) =>
        /\ ~DetectChangedFiles(cfg).files.nil
        /\ TrimSpace(cfg.GitOutput) = <<>> =>
              outputs = <<[name |-> "matrix", value |-> List(<<>>)],
                          [name |-> "changes_detected", value |-> Str(T_false)]>>

\* run() has detected the changes: FilterChanged has returned
ChangesDetected == pc \in {"Expand", "Exit"} /\ ChangesAvailable

\* the known values of the primary dimension and the changed files
KnownValues == ExtractDimensionValues(Resolved.dimensions, Resolved.optsCfg.DimensionKey).s
ChangedFiles == DetectChangedFiles(cfg).files.s

\* f without its leading and trailing white space
Trimmed(f) ==
    LET inner == {i \in 1..Len(f) : f[i] \notin {9, 10, 11, 12, 13, 32}}
    IN  IF inner = {} THEN <<>>
        ELSE SubSeq(f, CHOOSE a \in inner : \A i \in inner : a <= i,
                       CHOOSE b \in inner : \A i \in inner : b >= i)

\* some changed file lies under the directory of the value
HasChangedFile(val) ==
    LET base == Resolved.optsCfg.BaseDir
        dir  == IF base = <<>> THEN val \o <<47>> ELSE base \o <<47>> \o val \o <<47>>
    IN  \E i \in 1..Len(ChangedFiles) :
            /\ Len(Trimmed(ChangedFiles[i])) >= Len(dir)
            /\ SubSeq(Trimmed(ChangedFiles[i]), 1, Len(dir)) = dir

\* C16 (as claimed): FilterChanged keeps the order of the known values,
\* contains a value iff a trimmed path starts with its directory prefix,
\* contains each value at most once and contains only known values.
C16_ChangedValuesOnce ==
    ChangesDetected =>
        /\ \A v \in Range(ChangedValues) \cup Range(KnownValues) :
              v \in Range(ChangedValues) <=> (v \in Range(KnownValues) /\ HasChangedFile(v))
        /\ \A i, j \in 1..Len(ChangedValues) : i < j => ChangedValues[i] # ChangedValues[j]
        /\ \A i, j \in 1..Len(ChangedValues) :
              i < j => \E a, b \in 1..Len(KnownValues) :
                          a < b /\ KnownValues[a] = ChangedValues[i]
                                /\ KnownValues[b] = ChangedValues[j]

\* the positions of the known values that have a changed file
ChangedPositions == {j \in 1..Len(KnownValues) : HasChangedFile(KnownValues[j])}

\* C16 (amended): FilterChanged returns the known values that have a changed
\* file under their directory prefix, in the order of the known values and
\* once for each of their occurrences among the known values, however many
\* paths match; it never contains a value that is not a known value.
C16_ChangedValuesInOrder ==
    ChangesDetected =>
        /\ Len(ChangedValues) = Cardinality(ChangedPositions)
        /\ \A i \in 1..Len(ChangedValues) :
              ChangedValues[i] =
                  KnownValues[CHOOSE j \in ChangedPositions :
                                  Cardinality({x \in ChangedPositions : x < j}) = i - 1]
        /\ (pc = "Expand" /\ CallerFilterValues = <<>>) => opts.FilterValues = ChangedValues

\* C16 witness: of the known values api, web, api the two api have two
\* files each, web has one with a leading blank; all three are returned
C16_Witness ==
    /\ pc = "Expand" /\ ChangesAvailable /\ CallerFilterValues = <<>>
    /\ KnownValues = <<V_api, V_web, V_api>>
    /\ Len(ChangedFiles) = 4
    /\ \E i \in 1..Len(ChangedFiles) : ChangedFiles[i] # Trimmed(ChangedFiles[i])
    /\ opts.FilterValues = <<V_api, V_web, V_api>>

\* the step condition of C17_DirectoryField
C17_DirectoryField_Step ==
    /\ pc = "Directory" =>
          /\ entries' = entries
          /\ \A r \in Range(entries) :
                IF optsCfg.DimensionKey \in DOMAIN heap[r]
                THEN /\ DOMAIN heap'[r] = DOMAIN heap[r] \cup {K_directory}
                     /\ heap'[r][K_directory] = ExpectedDirectory(heap[r])
                     /\ \A k \in DOMAIN heap[r] \ {K_directory} : heap'[r][k] = heap[r][k]
                ELSE heap'[r] = heap[r]
    /\ pc \in {"Sort", "Done"} => heap' = heap /\ Range(entries') = Range(entries)

\* C17: in the output of Expand every entry that has the primary dimension
\* key has directory = baseDir "/" value (value alone without base
\* directory), whatever directory it had before; an entry without the
\* primary key gets no directory field added.
C17_DirectoryField == [][C17_DirectoryField_Step]_vars

\* C17 witness: with base directory deploy, a product entry and an include
\* entry that came with directory "old" both have directory deploy/api, and
\* the include entry {} is in the output without a directory
C17_Witness ==
    /\ pc = "Done" /\ optsCfg.BaseDir = V_deploy /\ optsCfg.DimensionKey = K_service
    /\ \E r \in Range(entries) \cap ProductRefs :
          heap[r][K_directory] = Str(V_deploy \o <<47>> \o V_api)
    /\ \E i \in 1..Len(optsCfg.Include) :
          /\ optsCfg.Include[i] \in Range(entries)
          /\ K_directory \in DOMAIN SuppliedOptionsInclude[i]
          /\ SuppliedOptionsInclude[i][K_directory] = Str(V_old)
          /\ heap[optsCfg.Include[i]][K_directory] = Str(V_deploy \o <<47>> \o V_api)
    /\ \E r \in Range(entries) : heap[r] = EmptyMap

\* the facts of the scenario that do not concern the directory
ScenarioProduct ==
    /\ Len(entries) = 4
    /\ \E r \in Range(entries) :
          /\ heap[r][K_service] = Str(V_api) /\ heap[r][K_environment] = Str(V_dev)
          /\ heap[r][K_acct] = Str(V_1)

\* C18 (as claimed): the scenario config yields 4 entries, api/dev has
\* acct "1", and without a base directory no entry has a directory field.
C18_NoBaseDirNoDirectory ==
    (pc = "Done" /\ optsCfg.BaseDir = V_empty) =>
        /\ raw = ScenarioConfig => ScenarioProduct
        /\ \A r \in Range(entries) : K_directory \notin DOMAIN heap[r]

\* C18 (amended): the scenario config yields 4 entries, api/dev has acct
\* "1"; without a base directory every entry that has the primary dimension
\* key has a directory field, equal to its stringified primary value (api
\* and web in the scenario).
C18_NoBaseDirDirectoryIsValue ==
    (pc = "Done" /\ optsCfg.BaseDir = V_empty) =>
        /\ raw = ScenarioConfig => ScenarioProduct
        /\ \A r \in Range(entries) :
              optsCfg.DimensionKey \in DOMAIN heap[r] =>
                  /\ K_directory \in DOMAIN heap[r]
                  /\ heap[r][K_directory] = Str(Sprint(heap[r][optsCfg.DimensionKey]))

\* C18 witness: the four entries of the scenario, each with its service as
\* directory
C18_Witness ==
    /\ pc = "Done" /\ raw = ScenarioConfig /\ optsCfg.BaseDir = V_empty
    /\ ScenarioProduct
    /\ {heap[r][K_directory] : r \in Range(entries)} = {Str(V_api), Str(V_web)}

\* the sort keys in force: global.sort_by, "environment" when there is none
SortKeyList == IF optsCfg.SortBy.nil THEN <<K_environment>> ELSE optsCfg.SortBy.s

\* the stringified value of a field; a missing field reads as nil
KeyText(e, key) == IF key \in DOMAIN e THEN Sprint(e[key]) ELSE <<60, 110, 105, 108, 62>>

\* the tuple of a is lexicographically before the tuple of b
TupleLess(a, b) ==
    \E n \in 1..Len(SortKeyList) :
        /\ \A m \in 1..(n - 1) : KeyText(a, SortKeyList[m]) = KeyText(b, SortKeyList[m])
        /\ StrLess(KeyText(a, SortKeyList[n]), KeyText(b, SortKeyList[n]))

\* C19: the list returned by Expand is ordered by the sort keys
\* (["environment"] by default): for adjacent entries the tuples of
\* stringified values in sort-key order are non-decreasing, the first
\* differing key deciding, later keys only on ties of the earlier ones.
C19_SortedOutput ==
    pc = "Done" =>
        \A i \in 1..(Len(entries) - 1) : ~TupleLess(heap[entries[i + 1]], heap[entries[i]])

\* C19 witness: sorted by environment then service; the sort moved entries,
\* and two adjacent entries of one environment are ordered by their service
C19_Witness ==
    /\ pc = "Done"
    /\ SortKeyList = <<K_environment, K_service>>
    /\ Len(entries) >= 6
    /\ \E i \in 1..(Len(entries) - 1) : entries[i] > entries[i + 1]
    /\ \E i \in 1..(Len(entries) - 1) :
          /\ KeyText(heap[entries[i]], K_environment) = KeyText(heap[entries[i + 1]], K_environment)
          /\ StrLess(KeyText(heap[entries[i]], K_service), KeyText(heap[entries[i + 1]], K_service))

\* the value of dimension k in the i-th combination of the cartesian order:
\* keys ascending, the earlier key varying slowest, list items in list order,
\* map keys in sorted order
CartesianValue(k, i) ==
    LET later == {x \in DimKeysOf(dimensions) : StrLess(k, x)}
        idx   == (((i - 1) \div SizeProduct(dimensions, later)) % DimSize(dimensions[k])) + 1
    IN  IF dimensions[k].t = "list" THEN dimensions[k].l[idx]
        ELSE Str(CHOOSE key \in DOMAIN dimensions[k].m :
                     Cardinality({x \in DOMAIN dimensions[k].m : StrLess(x, key)}) = idx - 1)

\* the order of the entries before the sort: the product entries in cartesian
\* order, then the config include entries, then the caller's include entries
PreSortOrder ==
    /\ \A i \in 1..Len(combos) : \A k \in DimKeysOf(dimensions) :
          combos[i][k] = CartesianValue(k, i)
    /\ \A i, j \in 1..Len(entries) : i < j =>
          /\ entries[j] \in ProductRefs => (entries[i] \in ProductRefs /\ entries[i] < entries[j])
          /\ entries[j] \in Range(optsCfg.Include) =>
                /\ entries[i] \notin Range(opts.InputInclude)
                /\ entries[i] \in Range(optsCfg.Include) => entries[i] < entries[j]
          /\ (entries[i] \in Range(opts.InputInclude) /\ entries[j] \in Range(opts.InputInclude))
                => entries[i] < entries[j]

\* the position of an entry in the list after the step
PosAfter(r) == CHOOSE n \in 1..Len(entries') : entries'[n] = r

\* the step condition of C20_StableSort
C20_StableSort_Step ==
    pc = "Sort" =>
        /\ PreSortOrder
        /\ Len(entries') = Len(entries) /\ Range(entries') = Range(entries)
        /\ \A i, j \in 1..Len(entries) :
              (/\ i < j
               /\ ~TupleLess(heap[entries[i]], heap[entries[j]])
               /\ ~TupleLess(heap[entries[j]], heap[entries[i]]))
                  => PosAfter(entries[i]) < PosAfter(entries[j])

\* C20: the sort is stable: entries equal on every sort key keep the
\* relative order they had before the sort, which is the product entries in
\* cartesian order (keys ascending, earlier key slowest, list items in list
\* order, map keys sorted), then config include, then caller include entries.
C20_StableSort == [][C20_StableSort_Step]_vars

\* C20 witness: sorted by environment; the two include entries without
\* environment come first, the config one before the caller's one; the dev
\* product entries keep their order and precede the caller's dev entry
C20_Witness ==
    /\ pc = "Done" /\ SortKeyList = <<K_environment>>
    /\ Len(entries) = 7 /\ Len(opts.InputInclude) = 2
    /\ entries[1] \in Range(optsCfg.Include)
    /\ entries[2] = opts.InputInclude[1]
    /\ entries[3] \in ProductRefs /\ entries[4] \in ProductRefs /\ entries[3] < entries[4]
    /\ entries[5] = opts.InputInclude[2]
    /\ \A i \in {1, 2} : K_environment \notin DOMAIN heap[entries[i]]
    /\ \A i \in {3, 4, 5} : KeyText(heap[entries[i]], K_environment) = V_dev


\* the position of an entry in the list Expand returned
PosOf(r) == CHOOSE n \in 1..Len(entries) : entries[n] = r

\* the include entries (config-level or caller-level) of the returned list
\* that have no "environment" field
IncludedWithoutEnvironment ==
    {r \in Range(entries) : r \notin ProductRefs /\ K_environment \notin DOMAIN heap[r]}

\* C21: under the default sort an included entry without an "environment"
\* field is at the end of the final matrix: it comes after every entry of
\* the cartesian product, whether or not the product entries carry an
\* environment value.
C21_IncludeWithoutEnvironmentLast ==
    (pc = "Done" /\ optsCfg.SortBy.nil) =>
        \A r \in IncludedWithoutEnvironment :
            \A p \in Range(entries) \cap ProductRefs : PosOf(p) < PosOf(r)

\* the mapping under "global", empty when there is none or it is not a mapping
GlobalBlock ==
    IF K_global \in DOMAIN raw /\ raw[K_global].t = "map" THEN raw[K_global].m ELSE EmptyMap

\* C22: ParseOptions partitions the raw configuration. The dimensions-only
\* configuration holds exactly the top-level keys other than global, exclude
\* and include, each with its original value; dimension_key, base_dir and
\* sort_by are never among the shared global values and every other key of
\* the global block is, with its value; without a configured value the
\* primary key is "service" and the base directory is empty; the raw
\* configuration itself is left as it was.
C22_ParseOptionsPartition_Step ==
    pc = "ParseOptions" =>
        /\ DOMAIN dimensions' = (DOMAIN raw) \ {K_global, K_exclude, K_include}
        /\ \A k \in DOMAIN dimensions' : dimensions'[k] = raw[k]
        /\ DOMAIN optsCfg'.GlobalConfig =
               (DOMAIN GlobalBlock) \ {K_dimension_key, K_base_dir, K_sort_by}
        /\ \A k \in DOMAIN optsCfg'.GlobalConfig : optsCfg'.GlobalConfig[k] = GlobalBlock[k]
        /\ K_dimension_key \notin DOMAIN GlobalBlock => optsCfg'.DimensionKey = K_service
        /\ K_base_dir \notin DOMAIN GlobalBlock => optsCfg'.BaseDir = V_empty
        /\ raw' = raw

C22_ParseOptionsPartition == [][C22_ParseOptionsPartition_Step]_vars

\* C22 witness: a configuration with dimensions and a global block that
\* configures the primary key, the sort keys or the base directory next to a
\* shared value has been parsed
C22_Witness ==
    /\ pc = "ResolveTarget"
    /\ K_service \in DOMAIN dimensions
    /\ K_x \in DOMAIN optsCfg.GlobalConfig
    /\ DOMAIN GlobalBlock \cap {K_dimension_key, K_base_dir, K_sort_by} # {}
    /\ DOMAIN raw \cap {K_exclude, K_include} # {}

\* the position in the list l of its n-th mapping item
NthMapping(l, n) ==
    CHOOSE i \in 1..Len(l) :
        l[i].t = "map" /\ Cardinality({j \in 1..i : l[j].t = "map"}) = n

\* the mapping items of the list l, in their original order
MappingItems(l) ==
    [n \in 1..Cardinality({j \in 1..Len(l) : l[j].t = "map"}) |-> l[NthMapping(l, n)].m]

\* the list under a reserved key, empty when the value is absent or not a list
ReservedList(k) == IF k \in DOMAIN raw /\ raw[k].t = "list" THEN raw[k].l ELSE <<>>

\* C23: malformed reserved values are skipped, never an error. ParseOptions
\* always succeeds; of an exclude or include list the mapping items are kept
\* in their original order and every other item is dropped; an exclude or
\* include value that is not a list gives no pattern and no entry; a global
\* value that is not a mapping gives what an absent global gives: primary
\* key "service", empty base directory, default sort keys, no shared values.
C23_MalformedReservedSkipped_Step ==
    pc = "ParseOptions" =>
        /\ pc' = "ResolveTarget"
        /\ optsCfg'.Exclude = MappingItems(ReservedList(K_exclude))
        /\ [i \in 1..Len(optsCfg'.Include) |-> heap'[optsCfg'.Include[i]]]
               = MappingItems(ReservedList(K_include))
        /\ (K_global \in DOMAIN raw /\ raw[K_global].t # "map") =>
               /\ optsCfg'.DimensionKey = K_service
               /\ optsCfg'.BaseDir = V_empty
               /\ optsCfg'.SortBy.nil /\ SortKeys(optsCfg') = <<K_environment>>
               /\ optsCfg'.GlobalConfig = EmptyMap
               /\ optsCfg' = ParseOptions(Delete(raw, K_global), heap).optsCfg
               /\ dimensions' = ParseOptions(Delete(raw, K_global), heap).dimensions

C23_MalformedReservedSkipped == [][C23_MalformedReservedSkipped_Step]_vars

\* C23 witness: a config whose global is a string, whose include is a number
\* and whose exclude list holds two mappings among five items has been
\* parsed, with the two mappings as patterns
C23_Witness ==
    /\ pc = "ResolveTarget"
    /\ K_global \in DOMAIN raw /\ raw[K_global] = Str(V_junk)
    /\ K_include \in DOMAIN raw /\ raw[K_include] = Num(1)
    /\ Len(ReservedList(K_exclude)) = 5
    /\ Len(optsCfg.Exclude) = 2

\* the file at the config path cannot be read as a config object
ConfigFileUnusable ==
    \/ ~configFile.exists
    \/ ~configFile.readable
    \/ configFile.ext \notin {".json", ".yaml", ".yml"}
    \/ configFile.data.t # "map"

\* the change detection asks git for the changed files and git fails
ChangeDetectionFails ==
    /\ cfg.ChangeDetection
    /\ ~ExtractDimensionValues(dimensions, optsCfg.DimensionKey).nil
    /\ DetectChangedFiles(cfg).err

\* C24: no partial matrix on a fatal error. Whenever run() returns an error
\* (exclude or include input that is not valid JSON; config file missing,
\* unreadable, of an unsupported type, unparseable or not an object; failed
\* change detection) no output at all has been written; an error of the
\* caller's options is returned before the config file is read; and once the
\* "matrix" output is written run() does not return an error.
C24_NoOutputOnError_Step ==
    /\ pc' = "Failed" => outputs = <<>> /\ outputs' = <<>>
    /\ (pc = "BuildExpanderOptions" /\ (cfg.ExcludeErr \/ cfg.IncludeErr)) =>
           pc' = "Failed" /\ raw' = EmptyMap
    /\ (pc = "ParseConfigFile" /\ ConfigFileUnusable) => pc' = "Failed"
    /\ (pc = "ChangeDetection" /\ ChangeDetectionFails) => pc' = "Failed"
    /\ (\E i \in 1..Len(outputs) : outputs[i].name = "matrix") => pc' # "Failed"

C24_NoOutputOnError == [][C24_NoOutputOnError_Step]_vars

\* C24 witness: run() has returned the error of a failed git diff, the
\* config parsed and the primary dimension resolved
C24_Witness ==
    /\ pc = "Failed"
    /\ cfg.ChangeDetection /\ cfg.GitFails
    /\ K_service \in DOMAIN dimensions
    /\ outputs = <<>>

\* the value written under an output name, the last one written
OutputValue(n) ==
    outputs[CHOOSE i \in 1..Len(outputs) :
                outputs[i].name = n /\ \A j \in (i + 1)..Len(outputs) : outputs[j].name # n].value

\* the names of the classified (array or map) dimensions, ascending
ClassifiedKeys == SortStrings(DimKeysOf(dimensions))

\* the output entries that have every classified dimension key
FullEntries == {r \in Range(entries) : DimKeysOf(dimensions) \subseteq DOMAIN heap[r]}

\* the stringified values of an entry's classified dimensions, in key order
DimensionPath(r) == [i \in 1..Len(ClassifiedKeys) |-> Sprint(heap[r][ClassifiedKeys[i]])]

RECURSIVE NodeAt(_, _)
\* the node of a tree reached along a path of keys
NodeAt(node, path) ==
    IF path = <<>> THEN node
    ELSE IF node.t = "map" /\ path[1] \in DOMAIN node.m
         THEN NodeAt(node.m[path[1]], Tail(path))
    ELSE [t |-> "absent"]

RECURSIVE PathsOf(_, _)
\* the paths of d keys that a tree has
PathsOf(node, d) ==
    IF d = 0 THEN {<<>>}
    ELSE IF node.t # "map" THEN {}
    ELSE UNION {{<<k>> \o p : p \in PathsOf(node.m[k], d - 1)} : k \in DOMAIN node.m}

\* C25: the "config" output is a tree keyed by the classified dimensions
\* only, one level per array or map dimension in ascending key order and no
\* level for a top-level scalar setting: following the stringified dimension
\* values of an output entry that has every classified dimension key leads
\* to that merged entry, and the tree has no other path, so an entry that
\* lacks a classified dimension key is absent.
C25_ConfigTreeByDimensions ==
    (pc = "Exit" /\ Len(entries) > 0 /\ Len(ClassifiedKeys) > 0) =>
        /\ \A r \in FullEntries :
              \E q \in FullEntries :
                  /\ DimensionPath(q) = DimensionPath(r)
                  /\ NodeAt(OutputValue("config"), DimensionPath(r)) = Map(heap[q])
        /\ PathsOf(OutputValue("config"), Len(ClassifiedKeys))
               = {DimensionPath(r) : r \in FullEntries}

\* C25 restricted to configs whose top-level keys are all classified
\* dimensions
C25_ConfigTreeNoScalars ==
    (\A k \in DOMAIN dimensions : isDimension(dimensions[k])) => C25_ConfigTreeByDimensions

\* the top-level keys whose value is neither a list nor a mapping
ScalarKeys == {k \in DOMAIN dimensions : dimensions[k].t \notin {"list", "map"}}

RECURSIVE LengthProduct(_)
\* the product of the numbers of values ExtractDimensionValues gives the
\* keys in S
LengthProduct(S) ==
    IF S = {} THEN 1
    ELSE LET k == CHOOSE x \in S : TRUE
         IN  Len(ExtractDimensionValues(dimensions, k).s) * LengthProduct(S \ {k})

\* the number of consecutive combinations over which the value of dimension
\* k stays the same: the product of the sizes of the dimensions after k
Stride(k) == LengthProduct({d \in DimKeysOf(dimensions) : StrLess(k, d)})

\* the values Expand uses for a key are the ones ExtractDimensionValues
\* gives: the combinations are as many as the product of the list lengths,
\* the j-th value of key k is the stringified value of k in the first
\* combination of the j-th block, and the keys with a nil list are the keys
\* of no combination
SameClassification ==
    /\ \A k \in DOMAIN dimensions \cup {K_nokey} :
          ExtractDimensionValues(dimensions, k).nil <=> k \notin DimKeysOf(dimensions)
    /\ DimKeysOf(dimensions) # {} =>
          /\ Len(combos) = LengthProduct(DimKeysOf(dimensions))
          /\ \A i \in 1..Len(combos) : DOMAIN combos[i] = DimKeysOf(dimensions)
          /\ \A k \in DimKeysOf(dimensions) :
                \A i \in 1..Len(combos) :
                    Sprint(combos[i][k]) =
                        ExtractDimensionValues(dimensions, k).s[
                            (((i - 1) \div Stride(k))
                                 % Len(ExtractDimensionValues(dimensions, k).s)) + 1]
    /\ \A k \in ScalarKeys :
          Len(ExpandProduct(Delete(dimensions, k), optsCfg)) = Len(entries)

\* a product entry takes the key k from a layer above the scalar settings: a
\* global value or a per-value config of its combination
Overridden(i, k) ==
    \/ k \in DOMAIN optsCfg.GlobalConfig
    \/ DimKeysOf(dimensions) # {} /\ Definers(combos[i], k) # {}

\* C26 (as claimed): ExtractDimensionValues gives, stringified, exactly the
\* values Expand uses for a dimension (list items in list order, map keys
\* sorted) and nil exactly for a key Expand does not treat as a dimension; a
\* key whose value is neither list nor mapping never changes the number of
\* entries and is copied verbatim into every product entry.
C26_ScalarVerbatimEverywhere ==
    pc = "OptionsExclude" =>
        /\ SameClassification
        /\ \A k \in ScalarKeys : \A i \in 1..Len(entries) :
              k \in DOMAIN heap[entries[i]] /\ heap[entries[i]][k] = dimensions[k]

\* C26 (amended): the same, the scalar value being the one of a product
\* entry unless a global value or a per-value config of the entry's
\* combination defines the same key.
C26_ScalarVerbatimUnlessOverridden ==
    pc = "OptionsExclude" =>
        /\ SameClassification
        /\ \A k \in ScalarKeys : \A i \in 1..Len(entries) :
              /\ k \in DOMAIN heap[entries[i]]
              /\ ~Overridden(i, k) => heap[entries[i]][k] = dimensions[k]

\* C26 witness: a product over a map and a list dimension built from a
\* config with a scalar setting that no higher layer defines
C26_Witness ==
    /\ pc = "OptionsExclude"
    /\ DimKeysOf(dimensions) = {K_service, K_environment}
    /\ dimensions[K_service] = ArrayOf(3) /\ dimensions[K_environment] = EnvMap
    /\ K_x \in ScalarKeys
    /\ Len(entries) = 6
    /\ \E i \in 1..Len(entries) : ~Overridden(i, K_x) /\ heap[entries[i]][K_x] = Str(V_top)

\* the contents of the returned entries, in order
ReturnedEntries == [i \in 1..Len(entries) |-> heap[entries[i]]]

\* what Expand returns for the inputs of the run
ExpandResult ==
    LET r == Run(raw, cfg) IN [i \in 1..Len(r.entries) |-> r.heap[r.entries[i]]]

\* C27: Expand is deterministic. Whatever the order in which the ranges over
\* the top-level keys, the global values, the per-value configs and the
\* pattern keys visit their maps, an invocation returns one and the same
\* sequence of entries with the same contents for the same dimension config,
\* options config and caller options.
C27_ExpandDeterministic ==
    pc = "Done" => ReturnedEntries = ExpandResult

\* C27 witness: Expand has returned for a config with a map dimension with a
\* per-value config, a list dimension, a scalar setting, two global values
\* and an exclude list whose patterns have two keys and drop an entry
C27_Witness ==
    /\ pc = "Done"
    /\ DimKeysOf(dimensions) = {K_service, K_environment}
    /\ dimensions[K_service] = ServiceMap
    /\ K_x \in DOMAIN dimensions
    /\ Cardinality(DOMAIN optsCfg.GlobalConfig) = 2
    /\ Len(optsCfg.Exclude) = 2
    /\ Len(entries) = 1

\* the call of ResolveTarget swapped: it changed the dimension set, the
\* primary key or the caller's filter
SwapOccurred ==
    pc = "ResolveTarget"
    /\ <<dimensions', optsCfg'.DimensionKey, opts'>> # <<dimensions, optsCfg.DimensionKey, opts>>

\* C28: ResolveTarget never leaves the primary key pointing at a dimension it
\* has just deleted. After a call in which a swap occurred, by explicit
\* override or by auto-detection, for every single filter value including
\* the configured primary key's own name, DimensionKey names an array or map
\* dimension that is still in the dimension set.
C28_PrimaryKeyStillPresent_Step ==
    SwapOccurred =>
        /\ optsCfg'.DimensionKey \in DOMAIN dimensions'
        /\ isDimension(dimensions'[optsCfg'.DimensionKey])

C28_PrimaryKeyStillPresent == [][C28_PrimaryKeyStillPresent_Step]_vars

\* C28 without the single filter value that is the primary key's own name
C28_PresentUnlessOwnName_Step ==
    (SwapOccurred /\ opts.FilterValues # <<optsCfg.DimensionKey>>) =>
        C28_PrimaryKeyStillPresent_Step

C28_PresentUnlessOwnName == [][C28_PresentUnlessOwnName_Step]_vars

\* what ResolveTarget has no assignment to: base directory, sort keys,
\* global values, exclude and include lists, environment filter, and the
\* entries the include lists refer to
ResolveFrame ==
    /\ optsCfg'.BaseDir = optsCfg.BaseDir
    /\ optsCfg'.SortBy = optsCfg.SortBy
    /\ optsCfg'.GlobalConfig = optsCfg.GlobalConfig
    /\ optsCfg'.Exclude = optsCfg.Exclude
    /\ optsCfg'.Include = optsCfg.Include
    /\ opts'.InputExclude = opts.InputExclude
    /\ opts'.InputInclude = opts.InputInclude
    /\ opts'.EnvironmentFilter = opts.EnvironmentFilter
    /\ heap' = heap

\* neither path applies: nothing of the selection changes
NoPathFrame ==
    (~ExplicitOverride /\ ~AutoDetect) =>
        /\ dimensions' = dimensions
        /\ optsCfg'.DimensionKey = optsCfg.DimensionKey
        /\ opts'.FilterKey = opts.FilterKey
        /\ opts'.FilterValues = opts.FilterValues
        /\ ResolveFrame

\* the step condition of C30_SwapRemovesOneKey
C30_SwapRemovesOneKey_Step ==
    pc = "ResolveTarget" =>
        /\ NoPathFrame
        /\ (ExplicitOverride \/ AutoDetect) =>
              /\ (DOMAIN dimensions) \ (DOMAIN dimensions') = {optsCfg.DimensionKey}
              /\ DOMAIN dimensions' \subseteq DOMAIN dimensions
              /\ \A k \in DOMAIN dimensions' : dimensions'[k] = dimensions[k]
              /\ ResolveFrame

\* C30 (as claimed): frame of ResolveTarget. When neither the explicit
\* override nor the auto-detection applies, the dimension set, the primary
\* key, the filter key and the filter values are unchanged; when a swap
\* occurs exactly one key, the previously configured primary key, is removed
\* from the dimension set, every other key keeps its value, and base
\* directory, sort keys, global values, exclude and include lists and the
\* environment filter are unchanged.
C30_SwapRemovesOneKey == [][C30_SwapRemovesOneKey_Step]_vars

\* the step condition of C30_SwapRemovesPrimaryKeyOnly
C30_SwapRemovesPrimaryKeyOnly_Step ==
    pc = "ResolveTarget" =>
        /\ NoPathFrame
        /\ (ExplicitOverride \/ AutoDetect) =>
              /\ DOMAIN dimensions' = (DOMAIN dimensions) \ {optsCfg.DimensionKey}
              /\ \A k \in DOMAIN dimensions' : dimensions'[k] = dimensions[k]
              /\ ResolveFrame

\* C30 (amended): the same, the swap removing no key but the previously
\* configured primary key: that key when the dimension set has it, none when
\* it has not.
C30_SwapRemovesPrimaryKeyOnly == [][C30_SwapRemovesPrimaryKeyOnly_Step]_vars

\* C30 witness: the override "region" has swapped a config with a base
\* directory and a global value; "service" is gone, "environment" is kept
C30_Witness ==
    /\ pc = "ChangeDetection"
    /\ cfg.DimensionKey = K_region /\ optsCfg.DimensionKey = K_region
    /\ K_service \in DOMAIN raw /\ K_service \notin DOMAIN dimensions
    /\ K_environment \in DOMAIN dimensions
    /\ dimensions[K_environment] = raw[K_environment]
    /\ K_region \in DOMAIN dimensions

\* the values of a classified dimension: list items, map keys
DimValues(d) ==
    IF dimensions[d].t = "list" THEN Range(dimensions[d].l)
    ELSE {Str(k) : k \in DOMAIN dimensions[d].m}

\* no value of a classified dimension occurs twice
UniqueValues ==
    \A d \in DimKeysOf(dimensions) :
        dimensions[d].t = "list" =>
            \A i, j \in 1..Len(dimensions[d].l) :
                dimensions[d].l[i] = dimensions[d].l[j] => i = j

\* the values a product entry has under the dimension keys
DimensionPart(r) == [d \in DimKeysOf(dimensions) |-> heap[r][d]]

\* C29 (as claimed): every entry of the product holds under each classified
\* dimension key exactly the value chosen for its combination, a member of
\* the dimension's value list; no scalar setting, global value or per-value
\* config replaces it, so with unique dimension values the product entries
\* have as many distinct combinations of dimension values as the product
\* has entries.
C29_DimensionValuesKept ==
    (pc = "OptionsExclude" /\ DimKeysOf(dimensions) # {}) =>
        /\ \A i \in 1..Len(entries) : \A d \in DimKeysOf(dimensions) :
              /\ d \in DOMAIN heap[entries[i]]
              /\ heap[entries[i]][d] = combos[i][d]
              /\ heap[entries[i]][d] \in DimValues(d)
        /\ UniqueValues =>
              Cardinality({DimensionPart(entries[i]) : i \in 1..Len(entries)})
                  = SizeProduct(dimensions, DimKeysOf(dimensions))

\* no per-value config of a combination defines a dimension key
NoDimensionKeyInPerValue ==
    \A i \in 1..Len(combos) : \A d \in DimKeysOf(dimensions) : Definers(combos[i], d) = {}

\* C29 (amended): a dimension key of a product entry holds the value chosen
\* for the combination unless a per-value config of the combination defines
\* that key; then it holds the value of the last such config in ascending
\* dimension-key order. Scalar settings and global values never replace it.
\* With unique values and no per-value config defining a dimension key the
\* distinct combinations are as many as the product has entries.
C29_DimensionValuesKeptUnlessPerValue ==
    (pc = "OptionsExclude" /\ DimKeysOf(dimensions) # {}) =>
        /\ \A i \in 1..Len(entries) : \A d \in DimKeysOf(dimensions) :
              /\ d \in DOMAIN heap[entries[i]]
              /\ combos[i][d] \in DimValues(d)
              /\ Definers(combos[i], d) = {} => heap[entries[i]][d] = combos[i][d]
              /\ Definers(combos[i], d) # {} =>
                    \E p \in Definers(combos[i], d) :
                        /\ \A o \in Definers(combos[i], d) : o = p \/ StrLess(o, p)
                        /\ heap[entries[i]][d] = PerValue(p, combos[i])[d]
        /\ (UniqueValues /\ NoDimensionKeyInPerValue) =>
              Cardinality({DimensionPart(entries[i]) : i \in 1..Len(entries)})
                  = SizeProduct(dimensions, DimKeysOf(dimensions))

\* C29 witness: the per-value config of service "api" defines "environment";
\* the entry of the combination (dev, api) has environment "prod", and a
\* global value "service" has replaced no service
C29_Witness ==
    /\ pc = "OptionsExclude"
    /\ DimKeysOf(dimensions) = {K_service, K_environment}
    /\ K_service \in DOMAIN optsCfg.GlobalConfig
    /\ \E i \in 1..Len(entries) :
          /\ combos[i][K_environment] = Str(V_dev)
          /\ combos[i][K_service] = Str(V_api)
          /\ heap[entries[i]][K_environment] = Str(V_prod)
          /\ heap[entries[i]][K_service] = Str(V_api)

====
